---- MODULE Spec2Model ----
(***************************************************************************)
(* A model of the emitix event hub: the listener registry (forward map     *)
(* kind -> id -> listener, reverse index id -> kind), the lock-guarded     *)
(* lifecycle API of EventHub and LeptosEventChannels, and the emit paths.  *)
(***************************************************************************)
EXTENDS Integers, FiniteSets, Sequences, TLC

\* ------------------------------------------------------------------ bounds

\* Number of distinct Uuid values the model draws listener ids from.
MaxIds == 3

Ids == 1..MaxIds

\* Event kinds are caller-chosen strings; two are enough to tell kinds apart.
Kinds == {"a", "b"}

\* Threads holding a handle to the same hub.
Threads == {"t1", "t2", "t3"}

\* The threads that make the sequential lifecycle calls.
Callers == {"t1", "t2"}

None == "none"

\* What a registered closure does when it is invoked: return, or panic.
PlainBodies == {"plain", "panic"}

\* Closures that call back into the hub they are registered on.
NestedBodies == {"plain", "add", "remove_self", "emit_a", "emit_b"}

\* The kinds slices given to new_broadcast_emitter; the empty slice is all kinds.
BroadcastKinds == {<< >>, <<"a">>, <<"a", "b">>, <<"a", "a">>}

\* The boxed listeners an EventManager (src/lib.rs) holds at most.
MaxBoxes == 3

\* The closures given to the EventManager of src/lib.rs; each is Copy, so the
\* same closure can be given to add_listener and then to remove_listener.
Fns == {"f", "g"}

\* The EventHub values a program holds, each built by default() or by clone().
HubNames == {"h1", "h2", "h3"}

\* An EventHub value that has not been built yet.
NoHub == [arc |-> 0, root |-> None]

\* The Arc allocations behind them: an Arc lives while an EventHub holds it.
Arcs == 1..Cardinality(HubNames)

\* The emitter objects shared by the threads: one per way of making it.
Handles ==
    {[path |-> "emitter", kinds |-> <<k>>] : k \in Kinds}
    \cup {[path |-> "broadcaster", kinds |-> ks] : ks \in BroadcastKinds}
    \cup {[path |-> "null", kinds |-> << >>]}

VARIABLES
    registry,   \* EventHub.registry: [listeners, links] (event_hub/registry.rs)
    channels,   \* LeptosEventChannels.registry: [listeners, links] (leptos/registry.rs)
    returned,   \* history: how many times Uuid::new_v4 has returned each id
    last,       \* history: the last lifecycle call, its arguments and its results
    trueRet,    \* history: how many remove_listener(id) calls returned true, per id
    rw,         \* the RwLock around EventHub.registry: [readers, writer, poisoned]
    lrw,        \* the RwLock around LeptosEventChannels.registry: [poisoned]
    callback,   \* Listener.callback of each id: [body, holder, poisoned]
    wrappers,   \* the Listener wrapped in each emitter object: [holder, poisoned]
    stack,      \* per thread, the calls in progress, innermost last
    result,     \* per thread, what its last outermost call returned
    hubs,       \* the EventHub values of a program: the Arc each one holds
    arcs,       \* the registries behind those Arcs
    manager     \* EventManager.listeners of src/lib.rs: kind -> Vec of boxed listeners

vars ==
    <<registry, channels, returned, last, trueRet, rw, lrw, callback, wrappers, stack, result,
      hubs, arcs, manager>>

\* ------------------------------------------------------- map helpers

\* HashMap::remove(key)
MapRemove(f, key) == [x \in DOMAIN f \ {key} |-> f[x]]

\* HashMap::insert(key, value)
MapInsert(f, key, value) ==
    [x \in DOMAIN f \cup {key} |-> IF x = key THEN value ELSE f[x]]

EmptyMap == [x \in {} |-> None]

\* ------------------------------------------- event_hub/registry.rs

\* ListenerRegistry::new
RegistryNew == [listeners |-> EmptyMap, links |-> EmptyMap]

\* ListenerRegistry::clear that empties the reverse index only.
clear_links_only(r) == [listeners |-> r.listeners, links |-> EmptyMap]

\* ListenerRegistry::clear
clear(r) == [listeners |-> EmptyMap, links |-> EmptyMap]

\* ListenerRegistry::remove_listener without the pruning of an empty bucket.
remove_listener_no_prune(r, listener_id) ==
    IF listener_id \in DOMAIN r.links
    THEN LET event_kind == r.links[listener_id]
             links1 == MapRemove(r.links, listener_id)
         IN IF event_kind \in DOMAIN r.listeners
            THEN [reg |-> [listeners |-> MapInsert(r.listeners, event_kind,
                                            r.listeners[event_kind] \ {listener_id}),
                           links |-> links1],
                  ret |-> TRUE]
            ELSE [reg |-> [listeners |-> r.listeners, links |-> links1], ret |-> FALSE]
    ELSE [reg |-> r, ret |-> FALSE]

\* ListenerRegistry::remove_listener that reports true whenever the id was
\* issued once, without consulting the reverse index.
remove_listener_always_true(r, listener_id) ==
    [reg |-> remove_listener_no_prune(r, listener_id).reg, ret |-> TRUE]

\* ListenerRegistry::remove_listener that takes the id out of the reverse
\* index and leaves the listener in its bucket.
remove_listener_links_only(r, listener_id) ==
    IF listener_id \in DOMAIN r.links
    THEN [reg |-> [listeners |-> r.listeners, links |-> MapRemove(r.links, listener_id)],
          ret |-> r.links[listener_id] \in DOMAIN r.listeners]
    ELSE [reg |-> r, ret |-> FALSE]

\* ListenerRegistry::remove_listener that removes the whole bucket of the
\* listener's kind from the forward map.
remove_listener_drop_bucket(r, listener_id) ==
    IF listener_id \in DOMAIN r.links /\ r.links[listener_id] \in DOMAIN r.listeners
    THEN [reg |-> [listeners |-> MapRemove(r.listeners, r.links[listener_id]),
                   links |-> MapRemove(r.links, listener_id)],
          ret |-> TRUE]
    ELSE [reg |-> r, ret |-> FALSE]

\* ListenerRegistry::remove_listener: the new registry and the returned bool.
remove_listener(r, listener_id) ==
    IF listener_id \in DOMAIN r.links
    THEN LET event_kind == r.links[listener_id]
             links1 == MapRemove(r.links, listener_id)
         IN IF event_kind \in DOMAIN r.listeners
            THEN LET bucket == r.listeners[event_kind] \ {listener_id}
                 IN [reg |-> [listeners |->
                                 IF bucket = {}
                                 THEN MapRemove(r.listeners, event_kind)
                                 ELSE MapInsert(r.listeners, event_kind, bucket),
                              links |-> links1],
                     ret |-> TRUE]
            ELSE [reg |-> [listeners |-> r.listeners, links |-> links1], ret |-> FALSE]
    ELSE [reg |-> r, ret |-> FALSE]

\* ListenerRegistry::remove_listeners_by_kind that forgets the reverse index.
remove_listeners_by_kind_keep_links(r, event_kind) ==
    IF event_kind \notin DOMAIN r.listeners
    THEN [reg |-> r, ret |-> 0]
    ELSE [reg |-> [listeners |-> MapRemove(r.listeners, event_kind), links |-> r.links],
          ret |-> Cardinality(r.listeners[event_kind])]

\* ListenerRegistry::remove_listeners_by_kind that empties the bucket in place.
remove_listeners_by_kind_keep_bucket(r, event_kind) ==
    IF event_kind \notin DOMAIN r.listeners
    THEN [reg |-> r, ret |-> 0]
    ELSE [reg |-> [listeners |-> MapInsert(r.listeners, event_kind, {}),
                   links |-> [x \in DOMAIN r.links \ r.listeners[event_kind] |-> r.links[x]]],
          ret |-> Cardinality(r.listeners[event_kind])]

\* ListenerRegistry::remove_listeners_by_kind that returns the size left behind.
remove_listeners_by_kind_wrong_count(r, event_kind) ==
    IF event_kind \notin DOMAIN r.listeners
    THEN [reg |-> r, ret |-> 0]
    ELSE [reg |-> [listeners |-> MapRemove(r.listeners, event_kind),
                   links |-> [x \in DOMAIN r.links \ r.listeners[event_kind] |-> r.links[x]]],
          ret |-> 0]

\* ListenerRegistry::remove_listeners_by_kind: the new registry and the count.
remove_listeners_by_kind(r, event_kind) ==
    IF event_kind \notin DOMAIN r.listeners
    THEN [reg |-> r, ret |-> 0]
    ELSE LET listeners == r.listeners[event_kind]
             sz == Cardinality(listeners)
         IN [reg |-> [listeners |-> MapRemove(r.listeners, event_kind),
                      links |-> [x \in DOMAIN r.links \ listeners |-> r.links[x]]],
             ret |-> sz]

\* Uuid::new_v4 as register_listener uses it: the values it can return, given
\* how often each value was returned before. A v4 Uuid is never returned
\* twice; ids are opaque and only compared for equality, so the fresh value
\* is named by the first unused one (none is left at the bound).
new_v4(hist) ==
    LET fresh == {i \in Ids : hist[i] = 0}
    IN IF fresh = {} THEN {} ELSE {CHOOSE i \in fresh : \A j \in fresh : i <= j}

\* ListenerRegistry::register_listener that leaves the reverse index alone.
register_listener_no_link(r, event_kind, uuid) ==
    [reg |-> [listeners |-> MapInsert(r.listeners, event_kind,
                       (IF event_kind \in DOMAIN r.listeners
                        THEN r.listeners[event_kind] ELSE {}) \cup {uuid}),
              links |-> r.links],
     ret |-> uuid]

\* ListenerRegistry::register_listener that derives the id from the number of
\* registered listeners instead of taking the fresh Uuid.
register_listener_len_id(r, event_kind, uuid) ==
    LET listener_id == (Cardinality(DOMAIN r.links) % MaxIds) + 1
        entry == IF event_kind \in DOMAIN r.listeners
                 THEN r.listeners[event_kind] ELSE {}
    IN [reg |-> [listeners |-> MapInsert(r.listeners, event_kind, entry \cup {listener_id}),
                 links |-> MapInsert(r.links, listener_id, event_kind)],
        ret |-> listener_id]

\* ListenerRegistry::register_listener, uuid being what Uuid::new_v4 returned:
\* the new registry and the returned listener id.
register_listener(r, event_kind, uuid) ==
    LET listener_id == uuid
        entry == IF event_kind \in DOMAIN r.listeners
                 THEN r.listeners[event_kind] ELSE {}
    IN [reg |-> [listeners |-> MapInsert(r.listeners, event_kind, entry \cup {listener_id}),
                 links |-> MapInsert(r.links, listener_id, event_kind)],
        ret |-> listener_id]

\* --------------------------------------------- leptos/registry.rs

\* ListenerRegistry::clear (leptos)
leptos_clear(r) == [listeners |-> EmptyMap, links |-> EmptyMap]

\* ListenerRegistry::remove_listener (leptos) that leaves an emptied bucket
\* in the forward map.
leptos_remove_listener_no_prune(r, listener_id) ==
    IF listener_id \in DOMAIN r.links /\ r.links[listener_id] \in DOMAIN r.listeners
    THEN [reg |-> [listeners |-> MapInsert(r.listeners, r.links[listener_id],
                                    r.listeners[r.links[listener_id]] \ {listener_id}),
                   links |-> MapRemove(r.links, listener_id)],
          ret |-> TRUE]
    ELSE [reg |-> r, ret |-> FALSE]

\* ListenerRegistry::remove_listener (leptos)
leptos_remove_listener(r, listener_id) ==
    IF listener_id \in DOMAIN r.links
    THEN LET event_kind == r.links[listener_id]
             links1 == MapRemove(r.links, listener_id)
         IN IF event_kind \in DOMAIN r.listeners
            THEN LET bucket == r.listeners[event_kind] \ {listener_id}
                 IN [reg |-> [listeners |->
                                 IF bucket = {}
                                 THEN MapRemove(r.listeners, event_kind)
                                 ELSE MapInsert(r.listeners, event_kind, bucket),
                              links |-> links1],
                     ret |-> TRUE]
            ELSE [reg |-> [listeners |-> r.listeners, links |-> links1], ret |-> FALSE]
    ELSE [reg |-> r, ret |-> FALSE]

\* ListenerRegistry::remove_listeners_by_kind (leptos)
leptos_remove_listeners_by_kind(r, event_kind) ==
    IF event_kind \notin DOMAIN r.listeners
    THEN [reg |-> r, ret |-> 0]
    ELSE LET listeners == r.listeners[event_kind]
             sz == Cardinality(listeners)
         IN [reg |-> [listeners |-> MapRemove(r.listeners, event_kind),
                      links |-> [x \in DOMAIN r.links \ listeners |-> r.links[x]]],
             ret |-> sz]

\* ListenerRegistry::register_listener (leptos)
leptos_register_listener(r, event_kind, uuid) ==
    LET listener_id == uuid
        entry == IF event_kind \in DOMAIN r.listeners
                 THEN r.listeners[event_kind] ELSE {}
    IN [reg |-> [listeners |-> MapInsert(r.listeners, event_kind, entry \cup {listener_id}),
                 links |-> MapInsert(r.links, listener_id, event_kind)],
        ret |-> listener_id]

\* ------------------------------------- queries (EventManager trait)

\* EventHub::list_event_kinds / LeptosEventChannels::list_event_kinds
list_event_kinds(r) == DOMAIN r.listeners

\* EventHub::has_listeners / LeptosEventChannels::has_listeners
has_listeners(r, event_kind) == event_kind \in DOMAIN r.listeners

\* EventHub::listeners_count / LeptosEventChannels::listeners_count
listeners_count(r, event_kind) ==
    IF event_kind \in DOMAIN r.listeners
    THEN Cardinality(r.listeners[event_kind]) ELSE 0

\* --------------------------------------------------------------- Init

\* No lifecycle call yet.
NoCall == [op |-> None, by |-> None, kind |-> None, id |-> 0,
           ret |-> None, lret |-> None, pre |-> RegistryNew, lpre |-> RegistryNew]

\* No call has returned to the thread yet.
NoResult == [op |-> None]

\* Listener::new: an unlocked, unpoisoned mutex around the closure.
ListenerNew(body) == [body |-> body, holder |-> None, poisoned |-> FALSE]

\* EventHub::default and LeptosEventChannels::default: empty registries
\* behind fresh locks; no call made yet.
Init ==
    /\ registry = RegistryNew
    /\ channels = RegistryNew
    /\ returned = [i \in Ids |-> 0]
    /\ last = NoCall
    /\ trueRet = [i \in Ids |-> 0]
    /\ rw = [readers |-> {}, writer |-> None, poisoned |-> FALSE]
    /\ lrw = [poisoned |-> FALSE]
    /\ callback = [i \in Ids |-> ListenerNew(None)]
    /\ wrappers = [h \in Handles |-> [holder |-> None, poisoned |-> FALSE]]
    /\ stack = [t \in Threads |-> << >>]
    /\ result = [t \in Threads |-> NoResult]
    /\ hubs = [h \in HubNames |-> NoHub]
    /\ arcs = [a \in Arcs |-> RegistryNew]
    /\ manager = EmptyMap

\* RwLock::write can be taken: no reader and no writer holds the lock.
WriteFree == rw.writer = None /\ rw.readers = {}

\* RwLock::read can be taken: no writer holds the lock.
ReadFree == rw.writer = None

\* ------------------------------------------------ sequential lifecycle
\* The same call made on an EventHub and on a LeptosEventChannels, by a
\* thread that is not inside an emit; the call runs under the write lock.

\* EventManager::add_listener on both managers.
RegAddListener(t, event_kind) ==
    /\ stack[t] = << >> /\ WriteFree /\ ~rw.poisoned
    /\ \E uuid \in new_v4(returned) :
         LET h == register_listener(registry, event_kind, uuid)
             l == leptos_register_listener(channels, event_kind, uuid)
         IN /\ registry' = h.reg
            /\ channels' = l.reg
            /\ returned' = [returned EXCEPT ![h.ret] = @ + 1]
            /\ callback' = [callback EXCEPT ![h.ret] = ListenerNew("plain")]
            /\ last' = [op |-> "add_listener", by |-> t, kind |-> event_kind, id |-> 0,
                        ret |-> h.ret, lret |-> l.ret, pre |-> registry, lpre |-> channels]
    /\ result' = [result EXCEPT ![t] = NoResult]
    /\ UNCHANGED <<hubs, arcs, manager, lrw, trueRet, rw, wrappers, stack>>

\* A thread calls remove_listener(listener_id) and reaches registry.write().
RegRemoveCall(t, listener_id) ==
    /\ stack[t] = << >>
    /\ stack' = [stack EXCEPT ![t] =
                    << [path |-> "remove_listener", pc |-> "write", id |-> listener_id] >>]
    /\ result' = [result EXCEPT ![t] = NoResult]
    /\ UNCHANGED <<hubs, arcs, manager, lrw, registry, channels, returned, last, trueRet, rw, callback, wrappers>>

\* Another thread is inside a remove_listener call for the same id.
Overlapped(t, listener_id) ==
    \E u \in Callers \ {t} :
        /\ stack[u] # << >>
        /\ stack[u][1].path = "remove_listener"
        /\ stack[u][1].id = listener_id

\* EventManager::remove_listener on both managers: the write lock is taken,
\* the registry updated, the lock dropped and the bool returned.
RegRemoveListener(t) ==
    /\ stack[t] # << >> /\ stack[t][1].path = "remove_listener"
    /\ WriteFree /\ ~rw.poisoned
    /\ LET listener_id == stack[t][1].id
           h == remove_listener(registry, listener_id)
           l == leptos_remove_listener(channels, listener_id)
       IN /\ registry' = h.reg
          /\ channels' = l.reg
          /\ trueRet' = [trueRet EXCEPT ![listener_id] = IF h.ret THEN @ + 1 ELSE @]
          /\ last' = [op |-> "remove_listener", by |-> t, kind |-> None, id |-> listener_id,
                      ret |-> h.ret, lret |-> l.ret, pre |-> registry, lpre |-> channels]
          /\ result' = [result EXCEPT ![t] =
                          [op |-> "remove_listener", id |-> listener_id, ret |-> h.ret,
                           overlapped |-> Overlapped(t, listener_id)]]
    /\ stack' = [stack EXCEPT ![t] = << >>]
    /\ UNCHANGED <<hubs, arcs, manager, lrw, returned, rw, callback, wrappers>>

\* EventManager::remove_listeners_by_kind on both managers.
RegRemoveListenersByKind(t, event_kind) ==
    /\ stack[t] = << >> /\ WriteFree /\ ~rw.poisoned
    /\ LET h == remove_listeners_by_kind(registry, event_kind)
           l == leptos_remove_listeners_by_kind(channels, event_kind)
       IN /\ registry' = h.reg
          /\ channels' = l.reg
          /\ last' = [op |-> "remove_listeners_by_kind", by |-> t, kind |-> event_kind,
                      id |-> 0, ret |-> h.ret, lret |-> l.ret,
                      pre |-> registry, lpre |-> channels]
    /\ result' = [result EXCEPT ![t] = NoResult]
    /\ UNCHANGED <<hubs, arcs, manager, lrw, returned, trueRet, rw, callback, wrappers, stack>>

\* EventManager::clear_listeners on both managers.
RegClearListeners(t) ==
    /\ stack[t] = << >> /\ WriteFree /\ ~rw.poisoned
    /\ registry' = clear(registry)
    /\ channels' = leptos_clear(channels)
    /\ last' = [op |-> "clear_listeners", by |-> t, kind |-> None, id |-> 0,
                ret |-> None, lret |-> None, pre |-> registry, lpre |-> channels]
    /\ result' = [result EXCEPT ![t] = NoResult]
    /\ UNCHANGED <<hubs, arcs, manager, lrw, returned, trueRet, rw, callback, wrappers, stack>>

NextReg ==
    \/ \E t \in Callers, k \in Kinds : RegAddListener(t, k)
    \/ \E t \in Callers, i \in Ids : RegRemoveCall(t, i)
    \/ \E t \in Callers : RegRemoveListener(t)
    \/ \E t \in Callers, k \in Kinds : RegRemoveListenersByKind(t, k)
    \/ \E t \in Callers : RegClearListeners(t)

\* The lifecycle API called in any order, one call at a time.
SpecReg == Init /\ [][NextReg]_vars

\* ------------------------------------------------------------ emit paths

\* The ids registered under event_kind in r.
Bucket(r, event_kind) ==
    IF event_kind \in DOMAIN r.listeners THEN r.listeners[event_kind] ELSE {}

\* An empty Vec of listeners, as a count per listener id.
Zero == [i \in Ids |-> 0]

\* The innermost call of thread t.
Top(t) == stack[t][Len(stack[t])]

\* The stacks with the innermost call of t replaced by f.
SetTop(t, f) == [stack EXCEPT ![t] = [@ EXCEPT ![Len(@)] = f]]

\* A call of an emit entry point that has not taken any lock yet.
EmitFrame(path, kinds, pc) ==
    [path |-> path, kinds |-> kinds, pc |-> pc, seen |-> {}, snap |-> Zero, todo |-> Zero,
     cur |-> 0, called |-> Zero, ran |-> Zero, errors |-> Zero, ret |-> None]

\* The paths that call the closures while holding the registry write lock
\* (event_hub/emitter.rs, event_hub/broadcaster.rs).
Direct(path) == path \in {"hub_emitter", "hub_broadcaster"}

\* The paths that run inside a Listener wrapped in an emitter object
\* (new_emitter, new_broadcast_emitter).
Wrapped(path) == path \in {"emitter", "broadcaster"}

\* The emitter object a wrapped call goes through.
HandleOf(f) == [path |-> f.path, kinds |-> f.kinds]

\* The cloned listeners where the kinds of the slice are first collected
\* into a set: a kind named twice is processed once.
SnapshotDedup(r, kinds, all) ==
    [i \in Ids |-> IF \E k \in DOMAIN r.listeners :
                        /\ i \in r.listeners[k]
                        /\ (all \/ \E n \in DOMAIN kinds : kinds[n] = k)
                   THEN 1 ELSE 0]

\* The cloned listeners where the kinds slice is ignored: every listener of
\* the registry, whatever kinds the broadcaster was made with.
SnapshotAllKinds(r, kinds, all) ==
    [i \in Ids |-> Cardinality({k \in DOMAIN r.listeners : i \in r.listeners[k]})]

\* The cloned listeners where the empty slice was resolved to the kinds of the
\* registry when the broadcaster was made (there was none yet) instead of at
\* each call.
SnapshotGivenKinds(r, kinds, all) ==
    [i \in Ids |-> Cardinality({n \in DOMAIN kinds :
                                  /\ kinds[n] \in DOMAIN r.listeners
                                  /\ i \in r.listeners[kinds[n]]})]

\* The listeners cloned once, when the emitter object was made (no listener
\* was registered yet), instead of at each call.
SnapshotAtCreation(r, kinds, all) == Zero

\* The cloned listeners where the kind is not compared: the bucket taken is
\* the first one of the map in key order, whatever kind was asked for.
SnapshotFirstBucket(r, kinds, all) ==
    IF all
    THEN [i \in Ids |-> Cardinality({k \in DOMAIN r.listeners : i \in r.listeners[k]})]
    ELSE [i \in Ids |-> IF \E k \in DOMAIN r.listeners :
                              /\ \A k2 \in DOMAIN r.listeners : k2 = k \/ k2 \in {"b"}
                              /\ i \in r.listeners[k]
                         THEN Len(kinds) ELSE 0]

\* The cloned listeners where a kind without a bucket falls back to every
\* listener of the registry instead of the empty Vec.
SnapshotFallback(r, kinds, all) ==
    IF all \/ \A n \in DOMAIN kinds : kinds[n] \notin DOMAIN r.listeners
    THEN [i \in Ids |-> Cardinality({k \in DOMAIN r.listeners : i \in r.listeners[k]})]
    ELSE [i \in Ids |-> Cardinality({n \in DOMAIN kinds :
                                       /\ kinds[n] \in DOMAIN r.listeners
                                       /\ i \in r.listeners[kinds[n]]})]

\* kinds_to_process of the broadcasters: every key once for the empty slice.
\* The listeners cloned out of r for a sequence of kinds: the Vec the emit
\* paths iterate, as the number of clones of each listener.
Snapshot(r, kinds, all) ==
    IF all
    THEN [i \in Ids |-> IF \E k \in DOMAIN r.listeners : i \in r.listeners[k] THEN
                          Cardinality({k \in DOMAIN r.listeners : i \in r.listeners[k]})
                        ELSE 0]
    ELSE [i \in Ids |-> Cardinality({n \in DOMAIN kinds :
                                       /\ kinds[n] \in DOMAIN r.listeners
                                       /\ i \in r.listeners[kinds[n]]})]

\* The loop of emit after a listener.call that returned Err, short-circuiting:
\* the remaining listeners are dropped.
AfterErrStop(f, i) ==
    [f EXCEPT !.called[i] = @ + 1, !.errors[i] = @ + 1, !.todo = Zero]

\* The loop of emit after listener.call returned Err for listener i: the error
\* is pushed and the loop goes on.
AfterErr(f, i) ==
    [f EXCEPT !.called[i] = @ + 1, !.errors[i] = @ + 1, !.todo[i] = @ - 1]

\* An emit that drops the collected errors and returns Ok(()).
EmitResultSwallowed(errors) == "ok"

\* The result of emit: Ok(()) when no listener failed, else the aggregate Err.
EmitResult(errors) == IF errors = Zero THEN "ok" ELSE "err"

\* EventHub::emit(event_kind, _) is called by a thread that is not in a call.
HubEmitCall(t, event_kind) ==
    /\ stack[t] = << >>
    /\ stack' = [stack EXCEPT ![t] = << EmitFrame("hub", <<event_kind>>, "read") >>]
    /\ result' = [result EXCEPT ![t] = NoResult]
    /\ UNCHANGED <<hubs, arcs, manager, lrw, registry, channels, returned, last, trueRet, rw, callback, wrappers>>

\* registry.read() in emit and in the closures of new_emitter and
\* new_broadcast_emitter: waits for the writer; a poisoned lock is an Err that
\* ends the call (and the call of the wrapping Listener).
LockRead(t) ==
    /\ stack[t] # << >> /\ Top(t).pc = "read"
    /\ ReadFree
    /\ IF rw.poisoned
       THEN /\ stack' = SetTop(t, [Top(t) EXCEPT !.pc = "done", !.ret = "lock_err"])
            /\ wrappers' = IF Wrapped(Top(t).path)
                           THEN [wrappers EXCEPT ![HandleOf(Top(t))].holder = None]
                           ELSE wrappers
            /\ rw' = rw
       ELSE /\ rw' = [rw EXCEPT !.readers = @ \cup {t}]
            /\ stack' = SetTop(t, [Top(t) EXCEPT !.pc = "snapshot",
                                      !.seen = IF Len(Top(t).kinds) = 1
                                               THEN Bucket(registry, Top(t).kinds[1])
                                               ELSE {}])
            /\ wrappers' = wrappers
    /\ UNCHANGED <<hubs, arcs, manager, lrw, registry, channels, returned, last, trueRet, callback, result>>

\* The read guard is a temporary of the snapshot statement: dropped with it.
ReleaseRead(lock, t) == [lock EXCEPT !.readers = @ \ {t}]

\* The listeners are cloned out of the registry and the read guard dropped.
TakeSnapshot(t) ==
    /\ stack[t] # << >> /\ Top(t).pc = "snapshot"
    /\ LET f == Top(t)
           all == f.path = "broadcaster" /\ f.kinds = << >>
           listeners == Snapshot(registry, f.kinds, all)
       IN stack' = SetTop(t, [f EXCEPT !.pc = "loop", !.snap = listeners, !.todo = listeners])
    /\ rw' = ReleaseRead(rw, t)
    /\ UNCHANGED <<hubs, arcs, manager, lrw, registry, channels, returned, last, trueRet, callback, wrappers, result>>

\* A loop that unregisters a listener whose call returned Err.
CallListenerDropFailed(t, i) ==
    /\ stack[t] # << >> /\ Top(t).pc = "loop" /\ ~Direct(Top(t).path)
    /\ Top(t).todo[i] > 0
    /\ callback[i].holder = None
    /\ IF callback[i].poisoned
       THEN /\ stack' = SetTop(t, AfterErr(Top(t), i))
            /\ callback' = callback
            /\ registry' = remove_listener(registry, i).reg
       ELSE /\ stack' = SetTop(t, [Top(t) EXCEPT !.called[i] = @ + 1, !.todo[i] = @ - 1,
                                                !.cur = i, !.pc = "body"])
            /\ callback' = [callback EXCEPT ![i].holder = t]
            /\ registry' = registry
    /\ UNCHANGED <<hubs, arcs, manager, lrw, channels, returned, last, trueRet, rw, wrappers, result>>

\* listener.call that runs the closure without taking the listener's mutex.
CallListenerNoMutex(t, i) ==
    /\ stack[t] # << >> /\ Top(t).pc = "loop" /\ ~Direct(Top(t).path)
    /\ Top(t).todo[i] > 0
    /\ stack' = SetTop(t, [Top(t) EXCEPT !.called[i] = @ + 1, !.todo[i] = @ - 1,
                                         !.cur = i, !.pc = "body"])
    /\ callback' = [callback EXCEPT ![i].holder = t]
    /\ UNCHANGED <<hubs, arcs, manager, lrw, registry, channels, returned, last, trueRet, rw, wrappers, result>>

\* A loop that looks each cloned listener up in the registry again and skips
\* the ones that are no longer registered.
CallListenerIfRegistered(t, i) ==
    /\ stack[t] # << >> /\ Top(t).pc = "loop" /\ ~Direct(Top(t).path)
    /\ Top(t).todo[i] > 0
    /\ callback[i].holder = None
    /\ IF i \notin DOMAIN registry.links
       THEN /\ stack' = SetTop(t, [Top(t) EXCEPT !.todo[i] = @ - 1])
            /\ callback' = callback
       ELSE IF callback[i].poisoned
       THEN /\ stack' = SetTop(t, AfterErr(Top(t), i))
            /\ callback' = callback
       ELSE /\ stack' = SetTop(t, [Top(t) EXCEPT !.called[i] = @ + 1, !.todo[i] = @ - 1,
                                                !.cur = i, !.pc = "body"])
            /\ callback' = [callback EXCEPT ![i].holder = t]
    /\ UNCHANGED <<hubs, arcs, manager, lrw, registry, channels, returned, last, trueRet, rw, wrappers, result>>

\* listener.call(event_arg.clone()) for one of the cloned listeners:
\* callback.lock() waits for the holder; a poisoned mutex is the Err pushed to
\* errors; otherwise the closure starts under the listener's mutex.
CallListener(t, i) ==
    /\ stack[t] # << >> /\ Top(t).pc = "loop" /\ ~Direct(Top(t).path)
    /\ Top(t).todo[i] > 0
    /\ callback[i].holder = None
    /\ IF callback[i].poisoned
       THEN /\ stack' = SetTop(t, AfterErr(Top(t), i))
            /\ callback' = callback
       ELSE /\ stack' = SetTop(t, [Top(t) EXCEPT !.called[i] = @ + 1, !.todo[i] = @ - 1,
                                                !.cur = i, !.pc = "body"])
            /\ callback' = [callback EXCEPT ![i].holder = t]
    /\ UNCHANGED <<hubs, arcs, manager, lrw, registry, channels, returned, last, trueRet, rw, wrappers, result>>

\* A closure that only handles the event returns; Listener::call drops the
\* guard of the listener's mutex (the direct paths hold none).
BodyPlain(t) ==
    /\ stack[t] # << >> /\ Top(t).pc = "body"
    /\ callback[Top(t).cur].body = "plain"
    /\ LET f == Top(t)
       IN /\ stack' = SetTop(t, [f EXCEPT !.ran[f.cur] = @ + 1, !.cur = 0, !.pc = "loop"])
          /\ callback' = IF Direct(f.path) THEN callback
                         ELSE [callback EXCEPT ![f.cur].holder = None]
    /\ UNCHANGED <<hubs, arcs, manager, lrw, registry, channels, returned, last, trueRet, rw, wrappers, result>>

\* The locks as the unwinding of a panic in thread t leaves them: every guard
\* the thread holds is dropped while panicking, which poisons its lock.
Unwound(locks, t) ==
    [x \in DOMAIN locks |->
        IF locks[x].holder = t
        THEN [locks[x] EXCEPT !.holder = None, !.poisoned = TRUE]
        ELSE locks[x]]

\* A closure panics: the panic unwinds through every call of the thread.
BodyPanic(t) ==
    /\ stack[t] # << >> /\ Top(t).pc = "body"
    /\ callback[Top(t).cur].body = "panic"
    /\ callback' = Unwound(callback, t)
    /\ wrappers' = Unwound(wrappers, t)
    /\ rw' = IF rw.writer = t
             THEN [rw EXCEPT !.writer = None, !.poisoned = TRUE]
             ELSE [rw EXCEPT !.readers = @ \ {t}]
    /\ stack' = [stack EXCEPT ![t] = << >>]
    /\ result' = [result EXCEPT ![t] = [op |-> "emit", ret |-> "panic"]]
    /\ UNCHANGED <<hubs, arcs, manager, lrw, registry, channels, returned, last, trueRet>>

\* The loop is over: emit builds its result; the closure of an emitter object
\* returns to Listener::call, which drops the guard of the wrapped Listener;
\* the direct paths drop the write guard and return Ok(()).
Finish(t) ==
    /\ stack[t] # << >> /\ Top(t).pc = "loop"
    /\ Top(t).todo = Zero
    /\ LET f == Top(t)
       IN /\ stack' = SetTop(t, [f EXCEPT !.pc = "done",
                                    !.ret = IF Direct(f.path) THEN "ok"
                                            ELSE EmitResult(f.errors)])
          /\ wrappers' = IF Wrapped(f.path)
                         THEN [wrappers EXCEPT ![HandleOf(f)].holder = None]
                         ELSE wrappers
          /\ rw' = IF Direct(f.path) THEN [rw EXCEPT !.writer = None] ELSE rw
    /\ UNCHANGED <<hubs, arcs, manager, lrw, registry, channels, returned, last, trueRet, callback, result>>

\* The call returns to its caller: the thread, or the closure that made it.
Return(t) ==
    /\ stack[t] # << >> /\ Top(t).pc = "done"
    /\ IF Len(stack[t]) = 1
       THEN /\ stack' = [stack EXCEPT ![t] = << >>]
            /\ result' = [result EXCEPT ![t] = [op |-> "emit", ret |-> Top(t).ret]]
       ELSE /\ stack' = [stack EXCEPT ![t] =
                           [n \in 1..(Len(@) - 1) |->
                               IF n = Len(@) - 1 THEN [@[n] EXCEPT !.pc = "after"] ELSE @[n]]]
            /\ result' = result
    /\ UNCHANGED <<hubs, arcs, manager, lrw, registry, channels, returned, last, trueRet, rw, callback, wrappers>>

\* ------------------------------------------- concurrent lifecycle calls
\* A lifecycle call of EventHub made by a thread while other threads emit:
\* the whole call runs under the write lock.

\* EventHub::add_listener(event_kind, listener), listener behaving as body.
AddListener(t, event_kind, body) ==
    /\ stack[t] = << >> /\ WriteFree /\ ~rw.poisoned
    /\ \E uuid \in new_v4(returned) :
         LET h == register_listener(registry, event_kind, uuid)
         IN /\ registry' = h.reg
            /\ returned' = [returned EXCEPT ![h.ret] = @ + 1]
            /\ callback' = [callback EXCEPT ![h.ret] = ListenerNew(body)]
    /\ UNCHANGED <<hubs, arcs, manager, lrw, channels, last, trueRet, rw, wrappers, stack, result>>

\* EventHub::remove_listener(listener_id).
RemoveListener(t, listener_id) ==
    /\ stack[t] = << >> /\ WriteFree /\ ~rw.poisoned
    /\ LET h == remove_listener(registry, listener_id)
       IN /\ registry' = h.reg
          /\ trueRet' = [trueRet EXCEPT ![listener_id] = IF h.ret THEN @ + 1 ELSE @]
    /\ UNCHANGED <<hubs, arcs, manager, lrw, channels, returned, last, rw, callback, wrappers, stack, result>>

\* EventHub::remove_listeners_by_kind(event_kind).
RemoveListenersByKind(t, event_kind) ==
    /\ stack[t] = << >> /\ WriteFree /\ ~rw.poisoned
    /\ registry' = remove_listeners_by_kind(registry, event_kind).reg
    /\ UNCHANGED <<hubs, arcs, manager, lrw, channels, returned, last, trueRet, rw, callback, wrappers, stack, result>>

\* EventHub::clear_listeners().
ClearListeners(t) ==
    /\ stack[t] = << >> /\ WriteFree /\ ~rw.poisoned
    /\ registry' = clear(registry)
    /\ UNCHANGED <<hubs, arcs, manager, lrw, channels, returned, last, trueRet, rw, callback, wrappers, stack, result>>

\* One thread emits through the hub while another one changes the listeners.
Next ==
    \/ \E k \in Kinds : HubEmitCall("t1", k)
    \/ LockRead("t1")
    \/ TakeSnapshot("t1")
    \/ \E i \in Ids : CallListener("t1", i)
    \/ BodyPlain("t1")
    \/ BodyPanic("t1")
    \/ Finish("t1")
    \/ Return("t1")
    \/ \E k \in Kinds, b \in PlainBodies : AddListener("t2", k, b)
    \/ \E i \in Ids : RemoveListener("t2", i)
    \/ \E k \in Kinds : RemoveListenersByKind("t2", k)
    \/ ClearListeners("t2")

Spec == Init /\ [][Next]_vars

\* ----------------------------------------- emitter objects and nesting

\* emit on the emitter object made by new_emitter(event_kind).
EmitterCall(t, event_kind) ==
    /\ stack[t] = << >>
    /\ stack' = [stack EXCEPT ![t] = << EmitFrame("emitter", <<event_kind>>, "wrapper") >>]
    /\ result' = [result EXCEPT ![t] = NoResult]
    /\ UNCHANGED <<hubs, arcs, manager, lrw, registry, channels, returned, last, trueRet, rw, callback, wrappers>>

\* emit on the emitter object made by new_broadcast_emitter(event_kinds).
BroadcasterCall(t, event_kinds) ==
    /\ stack[t] = << >>
    /\ stack' = [stack EXCEPT ![t] = << EmitFrame("broadcaster", event_kinds, "wrapper") >>]
    /\ result' = [result EXCEPT ![t] = NoResult]
    /\ UNCHANGED <<hubs, arcs, manager, lrw, registry, channels, returned, last, trueRet, rw, callback, wrappers>>

\* Listener::call on the Listener that wraps the closure of the emitter
\* object: callback.lock() waits for the holder; a poisoned mutex is an Err.
LockWrapper(t) ==
    /\ stack[t] # << >> /\ Top(t).pc = "wrapper"
    /\ wrappers[HandleOf(Top(t))].holder = None
    /\ IF wrappers[HandleOf(Top(t))].poisoned
       THEN /\ stack' = SetTop(t, [Top(t) EXCEPT !.pc = "done", !.ret = "lock_err"])
            /\ wrappers' = wrappers
       ELSE /\ stack' = SetTop(t, [Top(t) EXCEPT
                                      !.pc = IF Top(t).path = "null" THEN "closure" ELSE "read"])
            /\ wrappers' = [wrappers EXCEPT ![HandleOf(Top(t))].holder = t]
    /\ UNCHANGED <<hubs, arcs, manager, lrw, registry, channels, returned, last, trueRet, rw, callback, result>>

\* EventHubEmitter::emit of event_hub/emitter.rs, bound to event_kind.
HubEmitterCall(t, event_kind) ==
    /\ stack[t] = << >>
    /\ stack' = [stack EXCEPT ![t] = << EmitFrame("hub_emitter", <<event_kind>>, "write") >>]
    /\ result' = [result EXCEPT ![t] = NoResult]
    /\ UNCHANGED <<hubs, arcs, manager, lrw, registry, channels, returned, last, trueRet, rw, callback, wrappers>>

\* EventHubBroadcaster::emit of event_hub/broadcaster.rs, bound to event_kinds.
HubBroadcasterCall(t, event_kinds) ==
    /\ stack[t] = << >>
    /\ stack' = [stack EXCEPT ![t] = << EmitFrame("hub_broadcaster", event_kinds, "write") >>]
    /\ result' = [result EXCEPT ![t] = NoResult]
    /\ UNCHANGED <<hubs, arcs, manager, lrw, registry, channels, returned, last, trueRet, rw, callback, wrappers>>

\* registry.write() in EventHubEmitter::emit and EventHubBroadcaster::emit:
\* the guard lives until the function returns, and the listeners are walked
\* in place under it.
LockWrite(t) ==
    /\ stack[t] # << >> /\ Top(t).pc = "write" /\ Direct(Top(t).path)
    /\ WriteFree
    /\ IF rw.poisoned
       THEN /\ stack' = SetTop(t, [Top(t) EXCEPT !.pc = "done", !.ret = "lock_err"])
            /\ rw' = rw
       ELSE LET f == Top(t)
                all == f.path = "hub_broadcaster" /\ f.kinds = << >>
                listeners == Snapshot(registry, f.kinds, all)
            IN /\ stack' = SetTop(t, [f EXCEPT !.pc = "loop", !.snap = listeners,
                                                !.todo = listeners])
               /\ rw' = [rw EXCEPT !.writer = t]
    /\ UNCHANGED <<hubs, arcs, manager, lrw, registry, channels, returned, last, trueRet, callback, wrappers, result>>

\* listener(event_arg.clone()) in the loops of emitter.rs and broadcaster.rs:
\* the closure is called in place, under the write guard.
CallDirect(t, i) ==
    /\ stack[t] # << >> /\ Top(t).pc = "loop" /\ Direct(Top(t).path)
    /\ Top(t).todo[i] > 0
    /\ stack' = SetTop(t, [Top(t) EXCEPT !.called[i] = @ + 1, !.todo[i] = @ - 1,
                                         !.cur = i, !.pc = "body"])
    /\ UNCHANGED <<hubs, arcs, manager, lrw, registry, channels, returned, last, trueRet, rw, callback, wrappers, result>>

\* Every emit entry point used by one thread while another one changes the
\* listeners.
NextPaths ==
    \/ \E k \in Kinds : HubEmitCall("t1", k)
    \/ \E k \in Kinds : EmitterCall("t1", k)
    \/ \E ks \in BroadcastKinds : BroadcasterCall("t1", ks)
    \/ \E k \in Kinds : HubEmitterCall("t1", k)
    \/ \E ks \in BroadcastKinds : HubBroadcasterCall("t1", ks)
    \/ LockWrapper("t1")
    \/ LockRead("t1")
    \/ TakeSnapshot("t1")
    \/ LockWrite("t1")
    \/ \E i \in Ids : CallListener("t1", i)
    \/ \E i \in Ids : CallDirect("t1", i)
    \/ BodyPlain("t1")
    \/ Finish("t1")
    \/ Return("t1")
    \/ \E k \in Kinds : AddListener("t2", k, "plain")
    \/ \E i \in Ids : RemoveListener("t2", i)

SpecPaths == Init /\ [][NextPaths]_vars

\* A closure that calls add_listener on its hub, for its own kind, and returns.
BodyAdd(t) ==
    /\ stack[t] # << >> /\ Top(t).pc = "body"
    /\ callback[Top(t).cur].body = "add"
    /\ WriteFree /\ ~rw.poisoned
    /\ Top(t).cur \in DOMAIN registry.links
    /\ \E uuid \in new_v4(returned) :
         LET f == Top(t)
             h == register_listener(registry, registry.links[f.cur], uuid)
         IN /\ registry' = h.reg
            /\ returned' = [returned EXCEPT ![h.ret] = @ + 1]
            /\ callback' = [callback EXCEPT ![h.ret] = ListenerNew("plain"),
                                            ![f.cur].holder = None]
            /\ stack' = SetTop(t, [f EXCEPT !.ran[f.cur] = @ + 1, !.cur = 0, !.pc = "loop"])
    /\ UNCHANGED <<hubs, arcs, manager, lrw, channels, last, trueRet, rw, wrappers, result>>

\* A closure that calls remove_listener on its hub with its own id and returns.
BodyRemoveSelf(t) ==
    /\ stack[t] # << >> /\ Top(t).pc = "body"
    /\ callback[Top(t).cur].body = "remove_self"
    /\ WriteFree /\ ~rw.poisoned
    /\ LET f == Top(t)
           h == remove_listener(registry, f.cur)
       IN /\ registry' = h.reg
          /\ trueRet' = [trueRet EXCEPT ![f.cur] = IF h.ret THEN @ + 1 ELSE @]
          /\ callback' = [callback EXCEPT ![f.cur].holder = None]
          /\ stack' = SetTop(t, [f EXCEPT !.ran[f.cur] = @ + 1, !.cur = 0, !.pc = "loop"])
    /\ UNCHANGED <<hubs, arcs, manager, lrw, channels, returned, last, rw, wrappers, result>>

\* A closure that calls EventHub::emit on its hub: the nested call starts
\* while the listener's mutex stays locked.
BodyEmit(t) ==
    /\ stack[t] # << >> /\ Top(t).pc = "body"
    /\ callback[Top(t).cur].body \in {"emit_a", "emit_b"}
    /\ LET event_kind == IF callback[Top(t).cur].body = "emit_a" THEN "a" ELSE "b"
       IN stack' = [stack EXCEPT ![t] =
                       Append([@ EXCEPT ![Len(@)].pc = "nested"],
                              EmitFrame("hub", <<event_kind>>, "read"))]
    /\ UNCHANGED <<hubs, arcs, manager, lrw, registry, channels, returned, last, trueRet, rw, callback, wrappers, result>>

\* The nested emit returned: the closure returns and Listener::call drops the
\* guard of the listener's mutex.
BodyAfter(t) ==
    /\ stack[t] # << >> /\ Top(t).pc = "after"
    /\ LET f == Top(t)
       IN /\ stack' = SetTop(t, [f EXCEPT !.ran[f.cur] = @ + 1, !.cur = 0, !.pc = "loop"])
          /\ callback' = [callback EXCEPT ![f.cur].holder = None]
    /\ UNCHANGED <<hubs, arcs, manager, lrw, registry, channels, returned, last, trueRet, rw, wrappers, result>>

\* The thread must lock, for listener i, a mutex it holds itself.
Relock(t, i) ==
    /\ stack[t] # << >> /\ Top(t).pc = "loop" /\ ~Direct(Top(t).path)
    /\ Top(t).todo[i] > 0
    /\ callback[i].holder = t

\* Mutex::lock on a mutex the thread already holds never returns: it blocks
\* for ever (no step) or panics; this is the panic.
RelockPanic(t, i) ==
    /\ Relock(t, i)
    /\ callback' = Unwound(callback, t)
    /\ wrappers' = Unwound(wrappers, t)
    /\ stack' = [stack EXCEPT ![t] = << >>]
    /\ result' = [result EXCEPT ![t] = [op |-> "emit", ret |-> "panic"]]
    /\ UNCHANGED <<hubs, arcs, manager, lrw, registry, channels, returned, last, trueRet, rw>>

\* One thread registers closures that call back into the hub, and emits.
NextNested ==
    \/ \E k \in Kinds, b \in NestedBodies : AddListener("t1", k, b)
    \/ \E k \in Kinds : HubEmitCall("t1", k)
    \/ LockRead("t1")
    \/ TakeSnapshot("t1")
    \/ \E i \in Ids : CallListener("t1", i)
    \/ BodyPlain("t1")
    \/ BodyAdd("t1")
    \/ BodyRemoveSelf("t1")
    \/ BodyEmit("t1")
    \/ BodyAfter("t1")
    \/ \E i \in Ids : RelockPanic("t1", i)
    \/ Finish("t1")
    \/ Return("t1")

SpecNested == Init /\ [][NextNested]_vars

\* ------------------------------------- adders and an emitter, in parallel

\* The kind each thread works on: the adders' kinds and the emitter's differ.
HomeKind == [t \in Threads |-> IF t = "t1" THEN "a" ELSE IF t = "t2" THEN "b" ELSE "c"]

\* The add_listener calls that have not registered their listener yet.
PendingAdds == {t \in Threads : stack[t] # << >> /\ Top(t).path = "add_listener"}

\* A thread calls add_listener(event_kind, listener) and reaches
\* registry.write(); (the model has a Uuid left for every call in progress).
AddCall(t, event_kind, body) ==
    /\ stack[t] = << >>
    /\ Cardinality(new_v4(returned)) > Cardinality(PendingAdds)
    /\ stack' = [stack EXCEPT ![t] =
                    << [path |-> "add_listener", pc |-> "write",
                        kind |-> event_kind, body |-> body] >>]
    /\ result' = [result EXCEPT ![t] = NoResult]
    /\ UNCHANGED <<hubs, arcs, manager, lrw, registry, channels, returned, last, trueRet, rw, callback, wrappers>>

\* EventHub::add_listener once the write lock is free: the listener is
\* registered, the guard dropped and the id returned.
AddExec(t) ==
    /\ stack[t] # << >> /\ Top(t).path = "add_listener"
    /\ WriteFree /\ ~rw.poisoned
    /\ \E uuid \in new_v4(returned) :
         LET h == register_listener(registry, Top(t).kind, uuid)
         IN /\ registry' = h.reg
            /\ returned' = [returned EXCEPT ![h.ret] = @ + 1]
            /\ callback' = [callback EXCEPT ![h.ret] = ListenerNew(Top(t).body)]
            /\ result' = [result EXCEPT ![t] = [op |-> "add_listener", ret |-> h.ret]]
    /\ stack' = [stack EXCEPT ![t] = << >>]
    /\ UNCHANGED <<hubs, arcs, manager, lrw, channels, last, trueRet, rw, wrappers>>

\* What a thread inside a hub call does next.
Step(t) ==
    \/ AddExec(t)
    \/ LockRead(t)
    \/ TakeSnapshot(t)
    \/ \E i \in Ids : CallListener(t, i)
    \/ BodyPlain(t)
    \/ BodyPanic(t)
    \/ Finish(t)
    \/ Return(t)

\* Every thread adds listeners to its own kind; t3 also emits its kind.
NextAdders ==
    \/ \E t \in Threads, b \in PlainBodies : AddCall(t, HomeKind[t], b)
    \/ HubEmitCall("t3", HomeKind["t3"])
    \/ \E t \in Threads : Step(t)

SpecAdders == Init /\ [][NextAdders]_vars

\* ------------------------------------------------------ lock failure

\* The lifecycle and query calls of the EventManager trait.
LifecycleOps ==
    {"add_listener", "remove_listener", "remove_listeners_by_kind", "clear_listeners",
     "list_event_kinds", "has_listeners", "listeners_count"}

\* What read() or write() of a registry lock gives the caller once the lock
\* is free: the guard, or the PoisonError that map_err turns into the Err.
LockResult(lock) == IF lock.poisoned THEN "lock_err" ELSE "ok"

\* A lifecycle or query call of EventHub that finds the registry lock
\* poisoned: `map_err(..)?` returns the Err and the registry is not touched.
LockFailed(t, op) ==
    /\ stack[t] = << >> /\ WriteFree
    /\ LockResult(rw) = "lock_err"
    /\ result' = [result EXCEPT ![t] =
                     [op |-> op, on |-> "hub", ret |-> LockResult(rw), poisoned |-> rw.poisoned]]
    /\ UNCHANGED <<hubs, arcs, manager, registry, channels, returned, last, trueRet, rw, lrw, callback, wrappers, stack>>

\* ------------------------------------------- leptos/manager.rs

\* LeptosEventChannels::add_listener: the write lock is taken and the
\* listener registered.
LeptosAddListener(t, event_kind) ==
    /\ stack[t] = << >>
    /\ LockResult(lrw) = "ok"
    /\ \E uuid \in new_v4(returned) :
         LET l == leptos_register_listener(channels, event_kind, uuid)
         IN /\ channels' = l.reg
            /\ returned' = [returned EXCEPT ![l.ret] = @ + 1]
    /\ result' = [result EXCEPT ![t] = NoResult]
    /\ UNCHANGED <<hubs, arcs, manager, registry, last, trueRet, rw, lrw, callback, wrappers, stack>>

\* LeptosEventChannels::add_listener where register_listener panics under the
\* write guard before either map is changed (Uuid::new_v4 panics when the
\* random source of the system fails, Callback::new when the reactive arena
\* is gone): the unwinding poisons the lock.
LeptosAddListenerPanic(t, event_kind) ==
    /\ stack[t] = << >>
    /\ LockResult(lrw) = "ok"
    /\ lrw' = [lrw EXCEPT !.poisoned = TRUE]
    /\ result' = [result EXCEPT ![t] = [op |-> "add_listener", on |-> "leptos", ret |-> "panic"]]
    /\ UNCHANGED <<hubs, arcs, manager, registry, channels, returned, last, trueRet, rw, callback, wrappers, stack>>

\* A lifecycle or query call of LeptosEventChannels that finds the registry
\* lock poisoned: `map_err(..)?` returns the Err.
LeptosLockFailed(t, op) ==
    /\ stack[t] = << >>
    /\ LockResult(lrw) = "lock_err"
    /\ result' = [result EXCEPT ![t] =
                     [op |-> op, on |-> "leptos", ret |-> LockResult(lrw),
                      poisoned |-> lrw.poisoned]]
    /\ UNCHANGED <<hubs, arcs, manager, registry, channels, returned, last, trueRet, rw, lrw, callback, wrappers, stack>>

\* LeptosEventChannels::emit(event_kind, _): the callbacks of the kind are
\* cloned under the read guard and run after it is dropped; a poisoned lock
\* is the Err returned by `?`; otherwise Ok(()).
LeptosEmit(t, event_kind) ==
    /\ stack[t] = << >>
    /\ result' = [result EXCEPT ![t] =
                     [op |-> "emit", on |-> "leptos", poisoned |-> lrw.poisoned,
                      ret |-> LockResult(lrw),
                      called |-> IF LockResult(lrw) = "ok"
                                 THEN Snapshot(channels, <<event_kind>>, FALSE) ELSE Zero]]
    /\ UNCHANGED <<hubs, arcs, manager, registry, channels, returned, last, trueRet, rw, lrw, callback, wrappers, stack>>

\* LeptosChannelEmitter::emit on the emitter made by new_emitter (one kind) or
\* new_broadcast_emitter (a kinds slice, empty for all kinds): callback.run
\* runs the closure, which logs a poisoned registry lock and returns without
\* calling anything; emit returns Ok(()) whatever the closure did.
LeptosEmitterEmit(t, event_kinds) ==
    /\ stack[t] = << >>
    /\ result' = [result EXCEPT ![t] =
                     [op |-> "emitter_emit", on |-> "leptos", poisoned |-> lrw.poisoned,
                      kinds |-> event_kinds, ret |-> "ok",
                      called |-> IF LockResult(lrw) = "ok"
                                 THEN Snapshot(channels, event_kinds, event_kinds = << >>)
                                 ELSE Zero]]
    /\ UNCHANGED <<hubs, arcs, manager, registry, channels, returned, last, trueRet, rw, lrw, callback, wrappers, stack>>

\* ------------------------------------------- one caller, call after call

\* One thread makes every call, each after the previous one returned: the
\* lifecycle API (on both managers) and every emit entry point of the hub.
NextSeq ==
    \/ \E k \in Kinds : RegAddListener("t1", k)
    \/ \E i \in Ids : RegRemoveCall("t1", i)
    \/ RegRemoveListener("t1")
    \/ \E k \in Kinds : RegRemoveListenersByKind("t1", k)
    \/ RegClearListeners("t1")
    \/ \E k \in Kinds : HubEmitCall("t1", k)
    \/ \E k \in Kinds : EmitterCall("t1", k)
    \/ \E ks \in BroadcastKinds : BroadcasterCall("t1", ks)
    \/ \E k \in Kinds : HubEmitterCall("t1", k)
    \/ \E ks \in BroadcastKinds : HubBroadcasterCall("t1", ks)
    \/ LockWrapper("t1")
    \/ LockRead("t1")
    \/ TakeSnapshot("t1")
    \/ LockWrite("t1")
    \/ \E i \in Ids : CallListener("t1", i)
    \/ \E i \in Ids : CallDirect("t1", i)
    \/ BodyPlain("t1")
    \/ Finish("t1")
    \/ Return("t1")
    \/ \E ks \in BroadcastKinds : LeptosEmitterEmit("t1", ks)

SpecSeq == Init /\ [][NextSeq]_vars

\* One caller on a hub whose listeners may panic.
NextPoison ==
    \/ \E k \in Kinds, b \in PlainBodies : AddListener("t1", k, b)
    \/ \E i \in Ids : RemoveListener("t1", i)
    \/ \E op \in LifecycleOps : LockFailed("t1", op)
    \/ \E k \in Kinds : HubEmitCall("t1", k)
    \/ \E k \in Kinds : EmitterCall("t1", k)
    \/ BroadcasterCall("t1", << >>)
    \/ \E k \in Kinds : HubEmitterCall("t1", k)
    \/ LockWrapper("t1")
    \/ LockRead("t1")
    \/ TakeSnapshot("t1")
    \/ LockWrite("t1")
    \/ \E i \in Ids : CallListener("t1", i)
    \/ \E i \in Ids : CallDirect("t1", i)
    \/ BodyPlain("t1")
    \/ BodyPanic("t1")
    \/ Finish("t1")
    \/ Return("t1")

SpecPoison == Init /\ [][NextPoison]_vars

\* One caller on a Leptos adapter whose registry lock may get poisoned.
NextLeptos ==
    \/ \E k \in Kinds : LeptosAddListener("t1", k)
    \/ \E k \in Kinds : LeptosAddListenerPanic("t1", k)
    \/ \E op \in LifecycleOps : LeptosLockFailed("t1", op)
    \/ \E k \in Kinds : LeptosEmit("t1", k)
    \/ \E ks \in BroadcastKinds : LeptosEmitterEmit("t1", ks)

SpecLeptos == Init /\ [][NextLeptos]_vars

\* ------------------------------------------------------ null emitters

\* emit on the emitter made by EventHub::new_null_emitter().
NullEmitterCall(t) ==
    /\ stack[t] = << >>
    /\ stack' = [stack EXCEPT ![t] = << EmitFrame("null", << >>, "wrapper") >>]
    /\ result' = [result EXCEPT ![t] = NoResult]
    /\ UNCHANGED <<hubs, arcs, manager, lrw, registry, channels, returned, last, trueRet, rw, callback, wrappers>>

\* A null emitter made as a broadcaster of every kind: its closure clones the
\* listeners of the whole registry and goes on to call them.
NullClosureBroadcast(t) ==
    /\ stack[t] # << >> /\ Top(t).pc = "closure"
    /\ LET listeners == Snapshot(registry, << >>, TRUE)
       IN stack' = SetTop(t, [Top(t) EXCEPT !.pc = "loop", !.snap = listeners,
                                             !.todo = listeners])
    /\ wrappers' = [wrappers EXCEPT ![HandleOf(Top(t))].holder = None]
    /\ UNCHANGED <<hubs, arcs, manager, lrw, registry, channels, returned, last, trueRet, rw, callback, result>>

\* The closure of the null emitter, `|_| Ok(())`, run by Listener::call under
\* the mutex of the Listener that wraps it; the guard is dropped on return.
NullClosure(t) ==
    /\ stack[t] # << >> /\ Top(t).pc = "closure"
    /\ stack' = SetTop(t, [Top(t) EXCEPT !.pc = "done", !.ret = "ok"])
    /\ wrappers' = [wrappers EXCEPT ![HandleOf(Top(t))].holder = None]
    /\ UNCHANGED <<hubs, arcs, manager, lrw, registry, channels, returned, last, trueRet, rw, callback, result>>

\* LeptosChannelEmitter::emit on the emitter made by
\* LeptosEventChannels::new_null_emitter(): callback.run runs `|_| {}` and
\* emit returns Ok(()).
LeptosNullEmitterEmit(t) ==
    /\ stack[t] = << >>
    /\ result' = [result EXCEPT ![t] =
                     [op |-> "null_emit", on |-> "leptos", ret |-> "ok", called |-> Zero]]
    /\ UNCHANGED <<hubs, arcs, manager, lrw, registry, channels, returned, last, trueRet, rw, callback, wrappers, stack>>

\* One thread emits through the null emitters while another one registers
\* listeners on both managers, removes them, and emits on the hub, whose
\* listeners may panic.
NextNull ==
    \/ NullEmitterCall("t1")
    \/ NullClosure("t1")
    \/ LeptosNullEmitterEmit("t1")
    \/ \E k \in Kinds, b \in PlainBodies : AddListener("t2", k, b)
    \/ \E i \in Ids : RemoveListener("t2", i)
    \/ \E k \in Kinds : LeptosAddListener("t2", k)
    \/ \E k \in Kinds : HubEmitCall("t2", k)
    \/ LockRead("t2")
    \/ TakeSnapshot("t2")
    \/ BodyPanic("t2")
    \/ \E t \in Callers :
        \/ LockWrapper(t)
        \/ \E i \in Ids : CallListener(t, i)
        \/ BodyPlain(t)
        \/ Finish(t)
        \/ Return(t)

SpecNull == Init /\ [][NextNull]_vars

\* ------------------------------------------- leptos: listener locks

\* LeptosEventChannels::add_listener of a closure that returns or panics
\* when it is run; callback[uuid] is the RwLock register_listener puts
\* around the closure.
LeptosAddListenerWith(t, event_kind, body) ==
    /\ stack[t] = << >>
    /\ LockResult(lrw) = "ok"
    /\ \E uuid \in new_v4(returned) :
         LET l == leptos_register_listener(channels, event_kind, uuid)
         IN /\ channels' = l.reg
            /\ returned' = [returned EXCEPT ![l.ret] = @ + 1]
            /\ callback' = [callback EXCEPT ![l.ret] = ListenerNew(body)]
    /\ result' = [result EXCEPT ![t] = NoResult]
    /\ UNCHANGED <<hubs, arcs, manager, registry, last, trueRet, rw, lrw, wrappers, stack>>

\* LeptosEventChannels::emit up to its loop: the callbacks of the kind are
\* cloned under the read guard, which is dropped.
LeptosEmitCall(t, event_kind) ==
    /\ stack[t] = << >>
    /\ LockResult(lrw) = "ok"
    /\ LET callbacks == Snapshot(channels, <<event_kind>>, FALSE)
       IN stack' = [stack EXCEPT ![t] =
                       << [EmitFrame("leptos", <<event_kind>>, "leptos_loop")
                              EXCEPT !.snap = callbacks, !.todo = callbacks] >>]
    /\ result' = [result EXCEPT ![t] = NoResult]
    /\ UNCHANGED <<hubs, arcs, manager, lrw, registry, channels, returned, last, trueRet, rw, callback, wrappers>>

\* callback.run(event_arg.clone()) for one of the cloned callbacks: the
\* closure made by register_listener takes f.write(); on Err it does nothing
\* and returns; on Ok it runs the listener, whose panic unwinds through the
\* write guard (poisoning the lock) and through emit.
LeptosRun(t, i) ==
    /\ stack[t] # << >> /\ Top(t).pc = "leptos_loop"
    /\ Top(t).todo[i] > 0
    /\ LET f == [Top(t) EXCEPT !.todo[i] = @ - 1, !.called[i] = @ + 1]
       IN IF callback[i].poisoned
          THEN /\ stack' = SetTop(t, f)
               /\ UNCHANGED <<callback, result>>
          ELSE IF callback[i].body = "panic"
          THEN /\ callback' = [callback EXCEPT ![i].poisoned = TRUE]
               /\ stack' = [stack EXCEPT ![t] = << >>]
               /\ result' = [result EXCEPT ![t] = [op |-> "emit", ret |-> "panic"]]
          ELSE /\ stack' = SetTop(t, [f EXCEPT !.ran[i] = @ + 1])
               /\ UNCHANGED <<callback, result>>
    /\ UNCHANGED <<hubs, arcs, manager, lrw, registry, channels, returned, last, trueRet, rw, wrappers>>

\* The loop of LeptosEventChannels::emit is over: Ok(()).
LeptosFinish(t) ==
    /\ stack[t] # << >> /\ Top(t).pc = "leptos_loop"
    /\ Top(t).todo = Zero
    /\ stack' = SetTop(t, [Top(t) EXCEPT !.pc = "done", !.ret = "ok"])
    /\ UNCHANGED <<hubs, arcs, manager, lrw, registry, channels, returned, last, trueRet, rw, callback, wrappers, result>>

\* One caller registers listeners on a LeptosEventChannels and emits; a
\* panic of a listener is caught by the caller, who goes on.
NextLeptosRun ==
    \/ \E k \in Kinds, b \in PlainBodies : LeptosAddListenerWith("t1", k, b)
    \/ \E k \in Kinds : LeptosEmitCall("t1", k)
    \/ \E i \in Ids : LeptosRun("t1", i)
    \/ LeptosFinish("t1")
    \/ Return("t1")

SpecLeptosRun == Init /\ [][NextLeptosRun]_vars

\* ------------------------------------------------------ two emitters

\* Two threads emit the same kind on the hub at the same time while a third
\* one registers listeners, some of which panic.
NextEmitters ==
    \/ \E k \in Kinds, b \in PlainBodies : AddListener("t3", k, b)
    \/ \E t \in Callers :
        \/ HubEmitCall(t, "a")
        \/ LockRead(t)
        \/ TakeSnapshot(t)
        \/ \E i \in Ids : CallListener(t, i)
        \/ BodyPlain(t)
        \/ BodyPanic(t)
        \/ Finish(t)
        \/ Return(t)

SpecEmitters == Init /\ [][NextEmitters]_vars

\* ------------------------------------------------------ aggregate error

\* The Err of Listener::call on a poisoned callback mutex: the text says that
\* the lock failed and why; it carries no id and no kind.
ListenerCallError == "Failed to lock listener callback: poisoned lock"

\* How many calls failed, over the listeners of S.
RECURSIVE Failures(_, _)
Failures(errors, S) ==
    IF S = {} THEN 0
    ELSE LET i == CHOOSE x \in S : TRUE
         IN errors[i] + Failures(errors, S \ {i})

\* The Err of EventHub::emit: the kind and one line per element of the
\* errors Vec, each the text of that error.
AggregateError(event_kind, errors) ==
    [kind |-> event_kind,
     messages |-> [n \in 1..Failures(errors, Ids) |-> ListenerCallError]]

\* One caller registers listeners that return or panic, removes them by id
\* and emits on the hub; a panic of a listener is caught by the caller.
NextPoisoned ==
    \/ \E k \in Kinds, b \in PlainBodies : AddListener("t1", k, b)
    \/ \E i \in Ids : RegRemoveCall("t1", i)
    \/ RegRemoveListener("t1")
    \/ \E k \in Kinds : HubEmitCall("t1", k)
    \/ LockRead("t1")
    \/ TakeSnapshot("t1")
    \/ \E i \in Ids : CallListener("t1", i)
    \/ BodyPlain("t1")
    \/ BodyPanic("t1")
    \/ Finish("t1")
    \/ Return("t1")

SpecPoisoned == Init /\ [][NextPoisoned]_vars

\* ------------------------------------------------------ hubs and clones

\* The EventHub values that have been built.
LiveHubs == {h \in HubNames : hubs[h] # NoHub}

\* Arc::new: an allocation no EventHub holds.
ArcNew ==
    LET free == {a \in Arcs : \A h \in HubNames : hubs[h].arc # a}
    IN CHOOSE a \in free : \A b \in free : a <= b

\* The registry an EventHub reaches through its Arc.
RegistryOf(h) == arcs[hubs[h].arc]

\* clone() that copies the listeners into a registry of its own.
HubCloneDeep(g, h) ==
    /\ hubs[g] # NoHub /\ hubs[h] = NoHub
    /\ hubs' = [hubs EXCEPT ![h] = [arc |-> ArcNew, root |-> hubs[g].root]]
    /\ arcs' = [arcs EXCEPT ![ArcNew] = RegistryOf(g)]
    /\ last' = [op |-> "clone", by |-> h, of |-> g]
    /\ result' = [result EXCEPT !["t1"] = NoResult]
    /\ UNCHANGED <<manager, lrw, registry, channels, returned, trueRet, rw, callback, wrappers, stack>>

\* #[derive(Clone)] on EventHub: Arc::clone of the registry field, the same
\* allocation. root is history: the default() call the value descends from.
HubClone(g, h) ==
    /\ hubs[g] # NoHub /\ hubs[h] = NoHub
    /\ hubs' = [hubs EXCEPT ![h] = [arc |-> hubs[g].arc, root |-> hubs[g].root]]
    /\ last' = [op |-> "clone", by |-> h, of |-> g]
    /\ result' = [result EXCEPT !["t1"] = NoResult]
    /\ UNCHANGED <<arcs, manager, lrw, registry, channels, returned, trueRet, rw, callback, wrappers, stack>>

\* EventHub::default (and new()): a new registry in a new Arc.
HubDefault(h) ==
    /\ hubs[h] = NoHub
    /\ hubs' = [hubs EXCEPT ![h] = [arc |-> ArcNew, root |-> h]]
    /\ arcs' = [arcs EXCEPT ![ArcNew] = RegistryNew]
    /\ last' = [op |-> "default", by |-> h]
    /\ result' = [result EXCEPT !["t1"] = NoResult]
    /\ UNCHANGED <<manager, lrw, registry, channels, returned, trueRet, rw, callback, wrappers, stack>>

\* EventHub::add_listener through the value h.
HubAddListener(h, event_kind) ==
    /\ hubs[h] # NoHub
    /\ \E uuid \in new_v4(returned) :
         LET l == register_listener(RegistryOf(h), event_kind, uuid)
         IN /\ arcs' = [arcs EXCEPT ![hubs[h].arc] = l.reg]
            /\ returned' = [returned EXCEPT ![l.ret] = @ + 1]
            /\ last' = [op |-> "add_listener", by |-> h, kind |-> event_kind, id |-> l.ret]
    /\ result' = [result EXCEPT !["t1"] = NoResult]
    /\ UNCHANGED <<hubs, manager, lrw, registry, channels, trueRet, rw, callback, wrappers, stack>>

\* EventHub::remove_listener through the value h.
HubRemoveListener(h, listener_id) ==
    /\ hubs[h] # NoHub
    /\ returned[listener_id] > 0
    /\ LET l == remove_listener(RegistryOf(h), listener_id)
       IN /\ arcs' = [arcs EXCEPT ![hubs[h].arc] = l.reg]
          /\ last' = [op |-> "remove_listener", by |-> h, id |-> listener_id, ret |-> l.ret]
    /\ result' = [result EXCEPT !["t1"] = NoResult]
    /\ UNCHANGED <<hubs, manager, lrw, registry, channels, returned, trueRet, rw, callback, wrappers, stack>>

\* EventHub::clear_listeners through the value h.
HubClearListeners(h) ==
    /\ hubs[h] # NoHub
    /\ arcs' = [arcs EXCEPT ![hubs[h].arc] = clear(RegistryOf(h))]
    /\ last' = [op |-> "clear_listeners", by |-> h]
    /\ result' = [result EXCEPT !["t1"] = NoResult]
    /\ UNCHANGED <<hubs, manager, lrw, registry, channels, returned, trueRet, rw, callback, wrappers, stack>>

\* EventHub::emit through the value h, with listeners that return: the
\* listeners of the kind in h's registry are each called once; Ok(()).
HubEmit(h, event_kind) ==
    /\ hubs[h] # NoHub
    /\ result' = [result EXCEPT !["t1"] =
                     [op |-> "emit", by |-> h, kind |-> event_kind, ret |-> "ok",
                      called |-> Snapshot(RegistryOf(h), <<event_kind>>, FALSE)]]
    /\ UNCHANGED <<hubs, arcs, manager, lrw, registry, channels, returned, last, trueRet, rw, callback, wrappers, stack>>

\* A program that builds h1 and h3 with default(), h2 as a clone of h1, and
\* uses the three in turn.
NextHubs ==
    \/ \E h \in {"h1", "h3"} : HubDefault(h)
    \/ HubClone("h1", "h2")
    \/ \E h \in HubNames, k \in Kinds : HubAddListener(h, k)
    \/ \E h \in HubNames, i \in Ids : HubRemoveListener(h, i)
    \/ \E h \in HubNames : HubClearListeners(h)
    \/ \E h \in HubNames, k \in Kinds : HubEmit(h, k)

SpecHubs == Init /\ [][NextHubs]_vars

\* ------------------------------------------------------ src/lib.rs

\* All the boxes the manager holds.
Boxes(m) == UNION {{m[k][n] : n \in 1..Len(m[k])} : k \in DOMAIN m}

\* Box::new(listener): the closure moved to a heap allocation of its own.
BoxNew(m, listener) ==
    LET used == {b.addr : b \in Boxes(m)}
        free == {n \in 1..MaxBoxes : <<"heap", n>> \notin used}
    IN [fn |-> listener, addr |-> <<"heap", CHOOSE n \in free : \A n2 \in free : n <= n2>>]

\* &listener inside remove_listener: the address of the parameter, a slot
\* of the caller's stack frame.
ParamAddr == <<"stack", 0>>

\* std::ptr::eq(a, b): the two references point to the same place.
ptr_eq(a, b) == a = b

\* EventManager::listeners_count (src/lib.rs)
manager_listeners_count(m, event_kind) ==
    IF event_kind \in DOMAIN m THEN Len(m[event_kind]) ELSE 0

\* EventManager::add_listener (src/lib.rs): the boxed listener is pushed on
\* the Vec of the kind. box and pre are history.
ManagerAddListener(event_kind, listener) ==
    /\ Cardinality(Boxes(manager)) < MaxBoxes
    /\ LET b == BoxNew(manager, listener)
           event_listeners == IF event_kind \in DOMAIN manager THEN manager[event_kind] ELSE << >>
       IN /\ manager' = MapInsert(manager, event_kind, Append(event_listeners, b))
          /\ last' = [op |-> "manager_add_listener", kind |-> event_kind, fn |-> listener,
                      box |-> b.addr, pre |-> manager_listeners_count(manager, event_kind)]
    /\ result' = [result EXCEPT !["t1"] = NoResult]
    /\ UNCHANGED <<hubs, arcs, lrw, registry, channels, returned, trueRet, rw, callback, wrappers, stack>>

\* EventManager::remove_listener (src/lib.rs): retain keeps the boxes whose
\* address is not the address of the listener parameter.
ManagerRemoveListener(event_kind, listener) ==
    /\ LET Keep(l) == ~ptr_eq(l.addr, ParamAddr)
           after_add == /\ last.op = "manager_add_listener"
                        /\ last.kind = event_kind /\ last.fn = listener
       IN /\ manager' = IF event_kind \in DOMAIN manager
                        THEN MapInsert(manager, event_kind, SelectSeq(manager[event_kind], Keep))
                        ELSE manager
          /\ last' = [op |-> "manager_remove_listener", kind |-> event_kind, fn |-> listener,
                      after_add |-> after_add,
                      box |-> IF after_add THEN last.box ELSE ParamAddr,
                      pre |-> IF after_add THEN last.pre
                              ELSE manager_listeners_count(manager, event_kind)]
    /\ result' = [result EXCEPT !["t1"] = NoResult]
    /\ UNCHANGED <<hubs, arcs, lrw, registry, channels, returned, trueRet, rw, callback, wrappers, stack>>

\* EventManager::clear_listeners(event_kind) (src/lib.rs): the kind is removed.
ManagerClearListeners(event_kind) ==
    /\ event_kind \in DOMAIN manager
    /\ manager' = MapRemove(manager, event_kind)
    /\ last' = [op |-> "manager_clear_listeners", kind |-> event_kind]
    /\ result' = [result EXCEPT !["t1"] = NoResult]
    /\ UNCHANGED <<hubs, arcs, lrw, registry, channels, returned, trueRet, rw, callback, wrappers, stack>>

\* EventManager::emit (src/lib.rs): under the mutex, every box of the kind
\* is called in the order of the Vec; Ok(()).
ManagerEmit(event_kind) ==
    /\ result' = [result EXCEPT !["t1"] =
                     [op |-> "manager_emit", kind |-> event_kind, ret |-> "ok",
                      called |-> IF event_kind \in DOMAIN manager
                                 THEN [n \in DOMAIN manager[event_kind] |->
                                          manager[event_kind][n].addr]
                                 ELSE << >>]]
    /\ UNCHANGED <<hubs, arcs, manager, lrw, registry, channels, returned, last, trueRet, rw, callback, wrappers, stack>>

\* One caller uses the EventManager of src/lib.rs, call after call.
NextManager ==
    \/ \E k \in Kinds, l \in Fns : ManagerAddListener(k, l)
    \/ \E k \in Kinds, l \in Fns : ManagerRemoveListener(k, l)
    \/ \E k \in Kinds : ManagerClearListeners(k)
    \/ \E k \in Kinds : ManagerEmit(k)

SpecManager == Init /\ [][NextManager]_vars

\* ------------------------------------------------- registry invariants

\* The reverse index and the forward map of r describe the same pairs.
Consistent(r) ==
    /\ \A i \in DOMAIN r.links :
          r.links[i] \in DOMAIN r.listeners /\ i \in r.listeners[r.links[i]]
    /\ \A k \in DOMAIN r.listeners : \A i \in r.listeners[k] :
          i \in DOMAIN r.links /\ r.links[i] = k

\* The kinds of r that hold at least one listener.
KindsWithListeners(r) == {k \in Kinds : listeners_count(r, k) > 0}

\* list_event_kinds and has_listeners agree with the listener counts.
NoEmptyBucket(r) ==
    /\ list_event_kinds(r) = KindsWithListeners(r)
    /\ \A k \in Kinds : has_listeners(r, k) <=> listeners_count(r, k) > 0

\* C5: after any sequence of register_listener, remove_listener,
\* remove_listeners_by_kind and clear, id is a key of links with value k iff
\* id is a key of listeners[k], in the event_hub and in the leptos registry;
\* no id is in two buckets.
C5_IndexConsistency ==
    /\ Consistent(registry) /\ Consistent(channels)
    /\ \A r \in {registry, channels} : \A k1, k2 \in DOMAIN r.listeners :
          k1 # k2 => r.listeners[k1] \cap r.listeners[k2] = {}

\* C5 witness: a bulk removal took two listeners out while another kind
\* still holds one.
C5_Witness ==
    /\ last.op = "remove_listeners_by_kind" /\ last.ret = 2
    /\ DOMAIN registry.links # {}

\* C6: the forward map holds no empty bucket: list_event_kinds is exactly the
\* kinds with at least one listener, has_listeners(k) iff listeners_count(k) > 0,
\* and a kind is gone once its last listener was removed by id, in both
\* registries.
C6_NoEmptyBucket ==
    /\ NoEmptyBucket(registry) /\ NoEmptyBucket(channels)
    /\ (last.op = "remove_listener" /\ last.ret = TRUE
            /\ last.pre.listeners[last.pre.links[last.id]] = {last.id})
         => /\ last.pre.links[last.id] \notin list_event_kinds(registry)
            /\ last.pre.links[last.id] \notin list_event_kinds(channels)

\* C6 witness: remove_listener took out the last listener of a kind while
\* the other kind still has one.
C6_Witness ==
    /\ last.op = "remove_listener" /\ last.ret = TRUE
    /\ last.pre.listeners[last.pre.links[last.id]] = {last.id}
    /\ list_event_kinds(registry) # {}

\* C7: every add_listener returns an id that no earlier add_listener
\* returned, whatever was removed or cleared in between and whichever thread
\* calls; in particular not the id of a listener removed earlier.
C7_FreshIds ==
    /\ \A i \in Ids : returned[i] <= 1
    /\ last.op = "add_listener" => last.ret \notin DOMAIN last.pre.links

\* C7 witness: thread t2 got an id from add_listener while an id issued
\* earlier is no longer registered.
C7_Witness ==
    /\ last.op = "add_listener" /\ last.by = "t2"
    /\ \E i \in Ids : returned[i] = 1 /\ i \notin DOMAIN registry.links

\* C8: remove_listener(id) returns true at most once per id, exactly when the
\* id is registered at the call; of two overlapping calls for one id at most
\* one gets true; an id never issued gets false.
C8_RemoveOnce ==
    /\ \A i \in Ids : trueRet[i] <= 1 /\ (returned[i] = 0 => trueRet[i] = 0)
    /\ last.op = "remove_listener" =>
          /\ last.ret = (last.id \in DOMAIN last.pre.links)
          /\ last.ret = TRUE => last.id \notin DOMAIN registry.links
    /\ \A t, u \in Callers :
          (t # u /\ result[t].op = "remove_listener" /\ result[u].op = "remove_listener"
              /\ result[t].id = result[u].id)
          => ~(result[t].ret /\ result[u].ret)

\* C8 witness: two threads were inside remove_listener for the same issued id
\* at the same time; the first to take the lock got true, the other false.
C8_Witness ==
    /\ result["t1"].op = "remove_listener" /\ result["t2"].op = "remove_listener"
    /\ result["t1"].id = result["t2"].id
    /\ result["t1"].ret = TRUE /\ result["t1"].overlapped
    /\ result["t2"].ret = FALSE
    /\ last.by = "t2"

\* C9: right after remove_listeners_by_kind(k) returned, has_listeners(k) is
\* false, listeners_count(k) is 0 and k is not in list_event_kinds.
C9_KindGone ==
    last.op = "remove_listeners_by_kind" =>
        /\ ~has_listeners(registry, last.kind)
        /\ listeners_count(registry, last.kind) = 0
        /\ last.kind \notin list_event_kinds(registry)

\* C9 witness: remove_listeners_by_kind returned for a kind that held two
\* listeners.
C9_Witness ==
    /\ last.op = "remove_listeners_by_kind"
    /\ listeners_count(last.pre, last.kind) = 2

\* C10: remove_listeners_by_kind(k) returns the number of listeners k had before
\* the call, takes each of their ids out of the reverse index so that a later
\* remove_listener on it returns false, and leaves every other kind as it was.
C10_RemoveByKind ==
    last.op = "remove_listeners_by_kind" =>
        /\ last.ret = listeners_count(last.pre, last.kind)
        /\ last.kind \in DOMAIN last.pre.listeners =>
              \A i \in last.pre.listeners[last.kind] :
                  /\ i \notin DOMAIN registry.links
                  /\ remove_listener(registry, i).ret = FALSE
        /\ \A k \in Kinds \ {last.kind} :
              /\ has_listeners(registry, k) = has_listeners(last.pre, k)
              /\ has_listeners(registry, k) => registry.listeners[k] = last.pre.listeners[k]
        /\ \A i \in DOMAIN last.pre.links :
              last.pre.links[i] # last.kind
              => i \in DOMAIN registry.links /\ registry.links[i] = last.pre.links[i]

\* C10 witness: remove_listeners_by_kind returned 2 while the other kind
\* holds a listener.
C10_Witness ==
    /\ last.op = "remove_listeners_by_kind" /\ last.ret = 2
    /\ \E k \in Kinds \ {last.kind} : listeners_count(registry, k) = 1

\* ------------------------------------------------------ emit claims

\* Thread t is at the return of an emit that got past the registry lock.
AtReturn(t) ==
    stack[t] # << >> /\ Top(t).pc = "done" /\ Top(t).ret \in {"ok", "err"}

\* C1: EventHub::emit(k, v) calls each listener registered under k when it
\* took the lock exactly once, also when some calls fail; every call either
\* ran the closure or failed; it returns Ok iff none failed, else one
\* aggregate error holding exactly the failures of the failing listeners, and
\* it returns only after every listener was attempted.
C1_EmitAll ==
    \A t \in Threads :
        (AtReturn(t) /\ Top(t).path = "hub") =>
            LET f == Top(t)
            IN /\ \A i \in Ids : f.snap[i] = (IF i \in f.seen THEN 1 ELSE 0)
               /\ f.called = f.snap /\ f.todo = Zero
               /\ \A i \in Ids : f.ran[i] + f.errors[i] = f.called[i]
               /\ \A i \in Ids : f.errors[i] = (IF callback[i].poisoned THEN f.snap[i] ELSE 0)
               /\ f.ret = "ok" <=> f.errors = Zero
               /\ f.ret = "err" <=> f.errors # Zero

\* C1 witness: an emit over three listeners returns the aggregate error with
\* one failure after the closures of the two others ran.
C1_Witness ==
    /\ AtReturn("t1") /\ Top("t1").ret = "err"
    /\ \E i, j, l \in Ids :
          /\ i # j /\ j # l /\ i # l
          /\ Top("t1").errors[i] = 1
          /\ Top("t1").ran[j] = 1 /\ Top("t1").ran[l] = 1

\* Thread t is inside the closure of a listener.
InBody(t) == \E n \in DOMAIN stack[t] : stack[t][n].pc \in {"body", "nested", "after"}

\* C2: on every emit path the registry lock is released before the first
\* listener closure runs: no thread is inside a closure while it holds the
\* registry lock.
C2_NoBodyUnderLock ==
    \A t \in Threads : InBody(t) => (rw.writer # t /\ t \notin rw.readers)

\* C3: a closure that calls add_listener, remove_listener or emit on its own
\* hub never deadlocks: no thread has to lock a listener mutex it holds.
C3_NestedCallsComplete ==
    \A t \in Threads, i \in Ids : ~Relock(t, i)

\* Thread t is inside a call on the hub.
Busy(t) == stack[t] # << >>

AtDone(t) == stack[t] # << >> /\ Top(t).pc = "done"

\* A lock the call of frame f had to take is poisoned: the registry lock, or
\* the mutex of the Listener that wraps the closure of an emitter object.
LockBroken(f) ==
    \/ rw.poisoned
    \/ Wrapped(f.path) /\ wrappers[HandleOf(f)].poisoned

C12_ErrWhenNoListener ==
    \A t \in Threads :
        (AtDone(t) /\ Top(t).path = "emitter"
            /\ Bucket(registry, Top(t).kinds[1]) = {})
        => Top(t).ret \in {"err", "lock_err"}

\* One call of each listener of the set ids, as a count per listener id.
Once(ids) == [i \in Ids |-> IF i \in ids THEN 1 ELSE 0]

\* C13: an emitter made by new_emitter(k) (every emitter object exists before
\* the first listener is registered) consults the registry at each emit: its
\* call invokes exactly the listeners registered under k at that call; a
\* listener added just before is invoked, a listener removed just before is
\* not, while the listeners left in its kind are.
C13_LateBinding ==
    \A t \in Threads :
        (AtDone(t) /\ Top(t).path \in {"emitter", "hub_emitter"}) =>
            LET f == Top(t)
                k == f.kinds[1]
            IN /\ f.ret = "ok"
               /\ f.called = Once(Bucket(registry, k)) /\ f.ran = f.called
               /\ (last.op = "add_listener" /\ last.kind = k) => f.called[last.ret] = 1
               /\ (last.op = "remove_listener" /\ last.ret = TRUE
                      /\ last.pre.links[last.id] = k)
                    => /\ f.called[last.id] = 0
                       /\ \A j \in last.pre.listeners[k] \ {last.id} : f.called[j] = 1

\* C13 witness: the emitter of new_emitter returns from a call that followed
\* the removal of a listener of its kind, having invoked the one left.
C13_Witness ==
    /\ AtDone("t1") /\ Top("t1").path = "emitter"
    /\ last.op = "remove_listener" /\ last.ret = TRUE
    /\ last.pre.links[last.id] = Top("t1").kinds[1]
    /\ \E j \in Ids : j # last.id /\ Top("t1").called[j] = 1

\* ---------------------------------------------------- broadcaster claims

\* C14: a broadcaster made with the empty kinds slice invokes the listeners
\* of both "a" and "b"; a broadcaster made with ["a"] invokes the listeners
\* of "a" and none of "b", also when "b" has listeners.
C14_BroadcastKinds ==
    \A t \in Threads :
        (AtDone(t) /\ Top(t).path \in {"broadcaster", "hub_broadcaster"}) =>
            LET f == Top(t)
            IN /\ f.kinds = << >> =>
                     \A i \in Bucket(registry, "a") \cup Bucket(registry, "b") :
                         f.called[i] = 1 /\ f.ran[i] = 1
               /\ f.kinds = <<"a">> =>
                     /\ \A i \in Bucket(registry, "a") : f.called[i] = 1 /\ f.ran[i] = 1
                     /\ \A i \in Bucket(registry, "b") : f.called[i] = 0 /\ f.ran[i] = 0

\* C14 witness: the broadcaster made with ["a"] returns, having invoked the
\* listener of "a" and not the two listeners of "b".
C14_Witness ==
    /\ AtDone("t1") /\ Top("t1").path = "broadcaster" /\ Top("t1").kinds = <<"a">>
    /\ Cardinality(Bucket(registry, "a")) = 1
    /\ Cardinality(Bucket(registry, "b")) = 2
    /\ \E i \in Bucket(registry, "a") : Top("t1").called[i] = 1

\* The kinds of r that are gone in r2.
KindsGone(r, r2) == DOMAIN r.listeners \ DOMAIN r2.listeners

\* C15: a broadcaster made with the empty kinds slice (every broadcaster
\* object exists before the first listener is registered) resolves the kinds
\* at each emit, on the hub and on the Leptos adapter: its call invokes once
\* every listener registered at that call; the listener that has just opened
\* a new kind is invoked, and the listeners of a kind that has just been
\* emptied are not.
C15_AllKindsAtCall ==
    /\ \A t \in Threads :
          (AtDone(t) /\ Top(t).path \in {"broadcaster", "hub_broadcaster"}
              /\ Top(t).kinds = << >>) =>
              LET f == Top(t)
              IN /\ f.called = Once(DOMAIN registry.links) /\ f.ran = f.called
                 /\ (last.op = "add_listener" /\ ~has_listeners(last.pre, last.kind))
                      => f.called[last.ret] = 1
                 /\ \A k \in KindsGone(last.pre, registry) :
                        \A i \in last.pre.listeners[k] : f.called[i] = 0
    /\ \A t \in Threads :
          (result[t].op = "emitter_emit" /\ result[t].kinds = << >>) =>
              /\ result[t].called = Once(DOMAIN channels.links)
              /\ (last.op = "add_listener" /\ ~has_listeners(last.lpre, last.kind))
                   => result[t].called[last.lret] = 1
              /\ \A k \in KindsGone(last.lpre, channels) :
                     \A i \in last.lpre.listeners[k] : result[t].called[i] = 0

\* C15 witness: the broadcaster of all kinds returns from a call made right
\* after the last listener of one kind was removed, having invoked the
\* listener of the other kind.
C15_Witness ==
    /\ AtDone("t1") /\ Top("t1").path = "broadcaster" /\ Top("t1").kinds = << >>
    /\ last.op = "remove_listener" /\ KindsGone(last.pre, registry) # {}
    /\ \E i \in Ids : Top("t1").called[i] = 1

\* The number of times the kinds slice of a broadcaster names the kind that
\* listener i is registered under in r; for the empty slice, each kind of the
\* registry counts once.
Matches(r, kinds, i) ==
    IF i \notin DOMAIN r.links THEN 0
    ELSE IF kinds = << >> THEN 1
    ELSE Cardinality({n \in 1..Len(kinds) : kinds[n] = r.links[i]})

C17_AfterClear ==
    last.op = "clear_listeners" =>
        /\ list_event_kinds(registry) = {} /\ list_event_kinds(channels) = {}
        /\ \A k \in Kinds :
              /\ ~has_listeners(registry, k) /\ listeners_count(registry, k) = 0
              /\ ~has_listeners(channels, k) /\ listeners_count(channels, k) = 0
        /\ \A i \in Ids :
              returned[i] > 0 => /\ remove_listener(registry, i).ret = FALSE
                                 /\ leptos_remove_listener(channels, i).ret = FALSE
        /\ \A t \in Threads :
              /\ (stack[t] # << >> /\ Top(t).path # "remove_listener") =>
                    /\ Top(t).called = Zero /\ Top(t).todo = Zero
                    /\ AtDone(t) => Top(t).ret = "ok"
              /\ result[t].op = "emitter_emit" => result[t].called = Zero

\* C17 witness: an emit returns after a clear_listeners() that dropped three
\* listeners spread over both kinds.
C17_Witness ==
    /\ last.op = "clear_listeners"
    /\ Cardinality(DOMAIN last.pre.links) = 3
    /\ Cardinality(DOMAIN last.pre.listeners) = 2
    /\ AtDone("t1") /\ Top("t1").path = "hub"

\* C18: once remove_listener(id of L1) has returned true, no emit started
\* afterwards invokes L1 (its invocation count stays as it is), and an emit
\* of the kind L1 was registered under invokes every listener left in that
\* kind, L2 in particular, exactly once.
C18_RemovedNotInvoked ==
    \A t \in Threads :
        (stack[t] # << >> /\ Top(t).path = "hub") =>
            LET f == Top(t)
                k == f.kinds[1]
            IN /\ \A i \in Ids :
                     trueRet[i] = 1 => f.called[i] = 0 /\ f.todo[i] = 0 /\ f.cur # i
               /\ (AtDone(t) /\ last.op = "remove_listener" /\ last.ret = TRUE
                      /\ last.pre.links[last.id] = k)
                    => /\ f.called[last.id] = 0 /\ f.ran[last.id] = 0
                       /\ \A j \in last.pre.listeners[k] \ {last.id} :
                              f.called[j] = 1 /\ f.ran[j] = 1

\* C18 witness: L1 and L2 were registered under one kind, L1 was removed by
\* its id, and an emit of the kind returns having invoked L2 once.
C18_Witness ==
    /\ AtDone("t1") /\ Top("t1").path = "hub"
    /\ last.op = "remove_listener" /\ last.ret = TRUE
    /\ last.pre.links[last.id] = Top("t1").kinds[1]
    /\ Cardinality(last.pre.listeners[Top("t1").kinds[1]]) = 2
    /\ \E j \in Ids : j # last.id /\ Top("t1").ran[j] = 1

\* ------------------------------------------------ emitter against hub

\* EventHub::emit(event_kind, _) as a function of the state it is called in
\* (registry lock, registry, listener mutexes), when nothing else runs: what
\* it returns and how often it calls each listener. A listener whose closure
\* panics takes the call down with it.
emit(lock, r, cbs, event_kind) ==
    IF LockResult(lock) = "lock_err"
    THEN [ret |-> "lock_err", called |-> Zero]
    ELSE LET listeners == Once(Bucket(r, event_kind))
             errors == [i \in Ids |-> IF listeners[i] > 0 /\ cbs[i].poisoned THEN 1 ELSE 0]
         IN IF \E i \in Ids : listeners[i] > 0 /\ ~cbs[i].poisoned /\ cbs[i].body = "panic"
            THEN [ret |-> "panic", called |-> Zero]
            ELSE [ret |-> EmitResult(errors), called |-> listeners]

\* C19: the emit of an emitter bound to k (made by new_emitter, or the
\* EventHubEmitter of event_hub/emitter.rs) does what EventHub::emit(k, v) does
\* in the same state: it returns the same result after calling the same
\* listeners the same number of times, and it is never inside a closure
\* while holding the registry lock.
C19_EmitterAsHub ==
    \A t \in Threads :
        (stack[t] # << >> /\ Top(t).path \in {"emitter", "hub_emitter"}) =>
            /\ AtDone(t) =>
                  LET e == emit(rw, registry, callback, Top(t).kinds[1])
                  IN Top(t).ret = e.ret /\ Top(t).called = e.called
            /\ InBody(t) => (rw.writer # t /\ t \notin rw.readers)

\* ------------------------------------------------------ poisoned lock

\* C20: a call that needs a poisoned registry lock returns an error to its
\* caller, never Ok: the lifecycle and query calls and emit of EventHub and of
\* LeptosEventChannels, and emit through an emitter or broadcaster object
\* of either.
C20_LockFailureSurfaced ==
    \A t \in Threads :
        /\ ("poisoned" \in DOMAIN result[t] /\ result[t].poisoned) => result[t].ret = "lock_err"
        /\ (AtDone(t) /\ rw.poisoned) => Top(t).ret = "lock_err"

\* ------------------------------------------------------- null emitter

\* C21: the emitter made by new_null_emitter() is bound to no registry: every
\* step of its emit leaves the registries of the hub and of the Leptos
\* adapter, their locks and every listener as they are, and the call returns
\* Ok(()), whatever listeners are registered and whatever state the registry
\* lock is in; the same holds for the null emitter of the Leptos adapter.
C21_NullEmitter ==
    [][\A t \in Threads :
         /\ (stack[t] # << >> /\ Top(t).path = "null" /\ stack'[t] # stack[t]) =>
               /\ registry' = registry /\ channels' = channels
               /\ rw' = rw /\ lrw' = lrw /\ callback' = callback
               /\ stack'[t] # << >> => stack'[t][1].called = Zero
               /\ stack'[t] = << >> => result'[t] = [op |-> "emit", ret |-> "ok"]
         /\ (stack[t] = << >> /\ stack'[t] = << >> /\ result'[t] # result[t]
                /\ result'[t].op = "null_emit") =>
               /\ registry' = registry /\ channels' = channels
               /\ result'[t].ret = "ok" /\ result'[t].called = Zero
      ]_vars

\* C21 witness: the null emitter returns Ok while listeners are registered
\* under both kinds of the hub and in the Leptos adapter, and another thread
\* is inside a listener.
C21_Witness ==
    /\ AtDone("t1") /\ Top("t1").path = "null" /\ Top("t1").ret = "ok"
    /\ list_event_kinds(registry) = Kinds
    /\ list_event_kinds(channels) # {}
    /\ \E i \in Ids : callback[i].holder = "t2"

\* ------------------------------------------------------- hubs and clones

\* C22: the EventHub values that descend from one default() call by clone()
\* answer every query alike and emit to the same listeners, so that a
\* listener added, removed or cleared through one is added, removed or
\* cleared for all of them; values that descend from different default()
\* (or new()) calls have no listener in common.
C22_CloneShares ==
    /\ \A g, h \in LiveHubs :
         IF hubs[g].root = hubs[h].root
         THEN /\ list_event_kinds(RegistryOf(g)) = list_event_kinds(RegistryOf(h))
              /\ \A k \in Kinds :
                   /\ has_listeners(RegistryOf(g), k) = has_listeners(RegistryOf(h), k)
                   /\ listeners_count(RegistryOf(g), k) = listeners_count(RegistryOf(h), k)
                   /\ Snapshot(RegistryOf(g), <<k>>, FALSE) = Snapshot(RegistryOf(h), <<k>>, FALSE)
              /\ RegistryOf(g).links = RegistryOf(h).links
         ELSE /\ DOMAIN RegistryOf(g).links \cap DOMAIN RegistryOf(h).links = {}
              /\ \A k, k2 \in Kinds : Bucket(RegistryOf(g), k) \cap Bucket(RegistryOf(h), k2) = {}
    /\ \A g \in LiveHubs :
         (last.op \in {"add_listener", "remove_listener", "clear_listeners"}
             /\ hubs[last.by].root = hubs[g].root) =>
            /\ last.op = "add_listener" => last.id \in Bucket(RegistryOf(g), last.kind)
            /\ last.op = "remove_listener" =>
                  /\ last.id \notin DOMAIN RegistryOf(g).links
                  /\ \A k \in Kinds : last.id \notin Bucket(RegistryOf(g), k)
            /\ last.op = "clear_listeners" => list_event_kinds(RegistryOf(g)) = {}
            /\ (result["t1"].op = "emit" /\ result["t1"].by = g) =>
                  result["t1"].called = Snapshot(RegistryOf(last.by), <<result["t1"].kind>>, FALSE)

\* C22 witness: h2 is a clone of h1 and h3 was built apart; a listener added
\* through h2 is called by an emit through h1, while h3 holds its own.
C22_Witness ==
    /\ LiveHubs = HubNames
    /\ hubs["h1"].root = "h1" /\ hubs["h2"].root = "h1" /\ hubs["h3"].root = "h3"
    /\ list_event_kinds(RegistryOf("h3")) # {}
    /\ last.op = "add_listener" /\ last.by = "h2"
    /\ result["t1"].op = "emit" /\ result["t1"].by = "h1"
    /\ result["t1"].called[last.id] = 1

\* ------------------------------------------------------- leptos adapter

\* C23: after every sequence of add_listener, remove_listener,
\* remove_listeners_by_kind and clear_listeners made on an EventHub and on a
\* LeptosEventChannels alike (the same fresh id drawn on both sides), the
\* two registries hold the same kind-to-ids and id-to-kind maps, emptied
\* buckets pruned, the three queries answer alike, and the last call
\* returned the same result on both sides.
C23_LeptosSameContract ==
    /\ channels.listeners = registry.listeners
    /\ channels.links = registry.links
    /\ list_event_kinds(channels) = list_event_kinds(registry)
    /\ \A k \in Kinds :
         /\ has_listeners(channels, k) = has_listeners(registry, k)
         /\ listeners_count(channels, k) = listeners_count(registry, k)
    /\ last.op # None => last.lret = last.ret

\* C23 witness: remove_listener returned true on both sides and pruned the
\* bucket of the kind, while another kind keeps its listeners.
C23_Witness ==
    /\ last.op = "remove_listener" /\ last.lret = TRUE
    /\ \E k \in list_event_kinds(last.lpre) : ~has_listeners(channels, k)
    /\ list_event_kinds(channels) # {}

\* ------------------------------------------------------- src/lib.rs

\* C24: in the EventManager of src/lib.rs, remove_listener(k, l) called right
\* after add_listener(k, l) takes the listener out again: listeners_count(k)
\* is what it was before the add, and an emit(k, v) made next does not call
\* the boxed listener the add pushed.
C24_AddThenRemove ==
    (last.op = "manager_remove_listener" /\ last.after_add) =>
        /\ manager_listeners_count(manager, last.kind) = last.pre
        /\ (result["t1"].op = "manager_emit" /\ result["t1"].kind = last.kind) =>
              \A n \in DOMAIN result["t1"].called : result["t1"].called[n] # last.box

\* C25: when LeptosEventChannels::emit returns and one of the listeners it
\* went through could not be run (the lock around its closure could not be
\* taken), the result is an error, and every listener of the snapshot was
\* gone through.
C25_LeptosFailureCollected ==
    \A t \in Threads :
        (AtDone(t) /\ Top(t).path = "leptos"
            /\ \E i \in Ids : Top(t).called[i] > Top(t).ran[i])
        => /\ Top(t).ret = "err"
           /\ Top(t).called = Top(t).snap

\* ------------------------------------------------------- snapshot

\* Thread t is in an EventHub::emit that has taken its snapshot.
AfterSnapshot(t) ==
    stack[t] # << >> /\ Top(t).path = "hub" /\ Top(t).pc \in {"loop", "body", "done"}

\* C26: an emit delivers to exactly its snapshot, whatever other threads do
\* to the registry meanwhile: every listener of the snapshot has been called
\* once or still has its turn to come, and none is left when emit returns,
\* also when remove_listener has returned true for it or its kind was
\* removed or the registry cleared; a listener that is not in the snapshot
\* is never called by that emit, also when it is registered by now.
C26_SnapshotDelivery ==
    \A t \in Threads :
        AfterSnapshot(t) =>
            LET f == Top(t)
            IN /\ \A i \in Ids : f.snap[i] = (IF i \in f.seen THEN 1 ELSE 0)
               /\ \A i \in Ids : f.called[i] + f.todo[i] = f.snap[i]
               /\ f.pc = "done" => f.todo = Zero

\* C26 witness: emit returns having called a listener for which
\* remove_listener returned true after the snapshot, and without having
\* called a listener added to the kind after the snapshot.
C26_Witness ==
    /\ AfterSnapshot("t1") /\ Top("t1").pc = "done"
    /\ \E i, j \in Ids :
          /\ Top("t1").called[i] = 1
          /\ trueRet[i] = 1 /\ i \notin DOMAIN registry.links
          /\ j \in Bucket(registry, Top("t1").kinds[1])
          /\ Top("t1").called[j] = 0

\* ------------------------------------------------------- listener mutex

\* Thread t is running the closure of listener i.
Running(t, i) ==
    \E n \in DOMAIN stack[t] : stack[t][n].pc = "body" /\ stack[t][n].cur = i

\* C27: the closure of a listener is never run by two threads at once: a
\* thread that runs it holds the listener's mutex, and no other thread runs
\* it until the first has left it.
C27_OneThreadPerListener ==
    \A i \in Ids :
        \A t, u \in Threads :
            Running(t, i) => /\ callback[i].holder = t
                             /\ Running(u, i) => u = t

\* C27 witness: two threads emitting the same kind run the closures of two
\* different listeners at the same time, each having the other's still to call.
C27_Witness ==
    \E i, j \in Ids :
        /\ i # j
        /\ Running("t1", i) /\ Running("t2", j)
        /\ Top("t1").kinds = Top("t2").kinds
        /\ Top("t1").todo[j] = 1 /\ Top("t2").todo[i] = 1

\* ------------------------------------------------------- kinds

\* C28: emit(k, v) and the emit of an emitter bound to k call only listeners
\* registered under k: a listener registered under another kind, and an id
\* that is not registered, is called zero times by that call.
C28_OnlyItsKind ==
    \A t \in Threads :
        (AtDone(t) /\ Top(t).path \in {"hub", "emitter", "hub_emitter"}) =>
            \A i \in Ids :
                (i \notin DOMAIN registry.links \/ registry.links[i] # Top(t).kinds[1])
                => Top(t).called[i] = 0 /\ Top(t).ran[i] = 0

\* C28 witness: an emitter bound to b returns having called the listener of b
\* and neither of the two listeners of a.
C28_Witness ==
    /\ AtDone("t1") /\ Top("t1").path = "emitter" /\ Top("t1").kinds = <<"b">>
    /\ \E i \in Ids : Top("t1").called[i] = 1
    /\ listeners_count(registry, "a") = 2

\* ------------------------------------------------------- frame of remove

\* What remove_listener(id) may change in a registry: pre is the registry
\* before the call, post after it, ret the bool returned.
RemoveFrame(pre, post, id, ret) ==
    IF ret
    THEN /\ DOMAIN post.links = DOMAIN pre.links \ {id}
         /\ \A j \in DOMAIN post.links : post.links[j] = pre.links[j]
         /\ \A k \in Kinds : Bucket(post, k) = Bucket(pre, k) \ {id}
    ELSE post = pre

\* C29: remove_listener(id) changes at most the entry of id, in the hub's
\* registry and in the Leptos one: when it returns false both maps are as
\* before; when it returns true every other listener is still registered
\* under its kind with its id, the other listeners of id's kind included.
C29_RemoveFrame ==
    last.op = "remove_listener" =>
        /\ RemoveFrame(last.pre, registry, last.id, last.ret)
        /\ RemoveFrame(last.lpre, channels, last.id, last.lret)

\* C29 witness: remove_listener returned true for a listener whose kind held
\* another listener, and another kind was populated.
C29_Witness ==
    /\ last.op = "remove_listener" /\ last.ret = TRUE
    /\ Cardinality(last.pre.listeners[last.pre.links[last.id]]) = 2
    /\ Cardinality(list_event_kinds(last.pre)) = 2

\* ------------------------------------------------------- frame of emit

\* C30: no step of an emit whose listeners only handle the event (or panic)
\* changes the registry: from the call to the return of emit, of an emitter's
\* emit or of a broadcaster's emit, the kinds, the listeners of every kind
\* and the reverse index stay as they were, whether the call returns Ok, the
\* aggregate error or a lock error, or is unwound by a panic.
C30_EmitKeepsRegistry ==
    [][\A t \in Threads :
          ((stack[t] # << >> \/ stack'[t] # << >>) /\ stack'[t] # stack[t])
          => /\ registry' = registry
             /\ list_event_kinds(registry') = list_event_kinds(registry)
      ]_vars

\* C30 witness: a broadcaster's emit returns the aggregate error with
\* listeners registered under both kinds.
C30_Witness ==
    /\ AtDone("t1") /\ Top("t1").path = "broadcaster" /\ Top("t1").ret = "err"
    /\ Top("t1").errors # Zero
    /\ list_event_kinds(registry) = Kinds

\* ------------------------------------------------------- poisoned listener

\* The listeners of kind k whose callback mutex is poisoned.
Poisoned(k) == {i \in Bucket(registry, k) : callback[i].poisoned}

\* The only failure in errors is the one of listener i.
Only(i) == [j \in Ids |-> IF j = i THEN 1 ELSE 0]

\* The error e tells listener i from every other listener: it is not the
\* error emit would return had another listener failed in its place.
Names(e, i) == \A j \in Ids \ {i} : AggregateError(e.kind, Only(j)) # e

\* An emit of thread t on the hub returns.
HubDone(t) == AtDone(t) /\ Top(t).path = "hub"

====
